---- MODULE Spec2Model ----
(***************************************************************************)
(* HybridLM inference gateway: the request pipeline of                     *)
(* InferenceHandler.HandleInference (semantic lookup, exact lookup,        *)
(* routing, LLM / SLM-ensemble inference, cache write-back), the Redis     *)
(* backed exact and semantic caches, the query router and the SLM engine.  *)
(*                                                                         *)
(* Texts are sequences of one-character strings.  Real numbers are kept    *)
(* exact: a complexity score is a fraction in units of 1e-5, a cosine      *)
(* similarity is n / sqrt(d2).  Weights are in tenths.                     *)
(* A call made on an already cancelled context returns an error (net/http  *)
(* and go-redis both test ctx.Done() before doing any I/O).  A cache call  *)
(* also fails while the backend is down; a model call may fail any time.   *)
(* trace, ret, entrySeen, nCalls, nLate, issued and stored are history     *)
(* variables: they record what a call did and steer nothing.               *)
(***************************************************************************)
EXTENDS Integers, Sequences, FiniteSets, TLC

VARIABLES
    useSemanticCache,   \* InferenceHandler.useSemanticCache (set by SetSemanticCache)
    strategy,           \* SLMConfig.Strategy
    aggregationFn,      \* SLMConfig.AggregationFn
    redis,              \* the Redis keyspace shared by RedisCache and SemanticCache
    st,                 \* per handler goroutine: the locals of HandleInference
    nextId,             \* serial number of the next request
    up,                 \* whether Redis and the embedding service answer
    fnArgs,             \* inputs of the pure function under check
    fnOut               \* its result

vars == <<useSemanticCache, strategy, aggregationFn, redis, st, nextId, up, fnArgs, fnOut>>

(***************************** bounds **************************************)
MaxReq == 2
MaxConcurrent == 1
MaxStrLen == 2
MaxDen == 2
MaxDelta == 1
MaxOps == 4
MaxResults == 3
MaxStages == 3
MaxEntries == 4
MaxParts == 2

(************************** program constants ******************************)
SimThresholdNum == 85
SimThresholdDen == 100
ComplexityThresholdE5 == 65000
MaxTokenCount == 100

Workers == {"w1", "w2"}
\* a request is served by the first free goroutine
Rank(w) == IF w = "w1" THEN 1 ELSE 2
Weights == <<10, 20>>
ModelOutput == << <<"x", " ", "y">>, <<"x">> >>
NumClients == Len(Weights)
Strategies == {"parallel", "series", "hybrid", "single"}
AggregationFns == {"weighted", "longest", "voting"}
\* aggregationFn is read only where a parallel phase yields several results
EngineConfigs ==
    (({"parallel"} \X {"weighted", "longest"}) \cup ({"hybrid", "series", "single"} \X {"weighted"}))
\* the requests sent: an empty query, and three whose last two share a cache key
Requests ==
    { [Query |-> <<>>, Context |-> <<>>],
      [Query |-> <<"a">>, Context |-> <<>>],
      [Query |-> <<"a", "|">>, Context |-> <<>>],
      [Query |-> <<"a">>, Context |-> <<"|">>] }
Alphabet == {"a", "|"}

(************************** sequence helpers *******************************)
RECURSIVE SeqSum(_)
SeqSum(s) == IF s = <<>> THEN 0 ELSE Head(s) + SeqSum(Tail(s))

Range(s) == {s[i] : i \in 1..Len(s)}

Perms(S) == {p \in [1..Cardinality(S) -> S] : \A i, j \in 1..Cardinality(S) : p[i] = p[j] => i = j}

StringsUpTo(n) == UNION {[1..k -> Alphabet] : k \in 0..n}

CountOf(s, ch) == Cardinality({i \in 1..Len(s) : s[i] = ch})

\* strings.Contains
Contains(s, sub) ==
    \E i \in 0..(Len(s) - Len(sub)) : \A j \in 1..Len(sub) : s[i + j] = sub[j]

\* strings.Fields: the maximal runs of non-space characters, in order; starts
\* holds the positions where the runs not yet collected begin
RECURSIVE FieldsFrom(_, _)
FieldsFrom(s, starts) ==
    IF starts = {} THEN <<>>
    ELSE LET i == CHOOSE a \in starts : \A b \in starts : a <= b
             ends == {j \in i..Len(s) : j = Len(s) \/ s[j + 1] = " "}
             e == CHOOSE a \in ends : \A b \in ends : a <= b
         IN  <<SubSeq(s, i, e)>> \o FieldsFrom(s, starts \ {i})

Fields(s) ==
    FieldsFrom(s, {i \in 1..Len(s) : s[i] # " " /\ (i = 1 \/ s[i - 1] = " ")})

(***************************** query router ********************************)
ToLowerCh(c) == CASE c = "A" -> "a" [] c = "W" -> "w" [] c = "X" -> "x" [] OTHER -> c

ToLower(s) == [i \in 1..Len(s) |-> ToLowerCh(s[i])]

\* unicode.IsPunct on the alphabet in use ('|' is a math symbol, not punctuation)
IsPunct(c) == c \in {"?", "!", ",", "."}

complexityKeywords ==
    << <<"e","x","p","l","a","i","n">>, <<"a","n","a","l","y","z","e">>,
       <<"c","o","m","p","a","r","e">>, <<"e","v","a","l","u","a","t","e">>,
       <<"w","h","y">>, <<"h","o","w"," ","d","o","e","s">>,
       <<"w","h","a","t"," ","i","f">>, <<"r","e","a","s","o","n","i","n","g">>,
       <<"d","e","t","a","i","l","e","d">> >>

Min(a, b) == IF a < b THEN a ELSE b

\* md5.Sum followed by hex.EncodeToString, taken as an injective digest
Md5Hex(data) == <<"md5">> \o data

\* QueryRouter.GenerateCacheKey
GenerateCacheKey(req) ==
    <<"inference:">> \o Md5Hex(req.Query \o <<"|">> \o req.Context)

\* fault: 0.15 is added for every occurrence of a keyword
keywordScorePerOccurrence(queryLower) ==
    15 * SeqSum([i \in 1..Len(complexityKeywords) |->
                    Cardinality({a \in 0..(Len(queryLower) - Len(complexityKeywords[i])) :
                        \A j \in 1..Len(complexityKeywords[i]) :
                            queryLower[a + j] = complexityKeywords[i][j]})])

\* the keyword loop of calculateComplexity, in hundredths: 0.15 is added for
\* each keyword strings.Contains finds in the lowercased query
keywordScore(queryLower) ==
    15 * Cardinality({i \in 1..Len(complexityKeywords) :
                         Contains(queryLower, complexityKeywords[i])})

\* QueryRouter.calculateComplexity: the score is num / den in units of 1e-5;
\* with no words the diversity term is 0/0 and the score is NaN
calculateComplexity(query) ==
    LET words == Fields(ToLower(query))
        w == Len(words)
        u == Cardinality(Range(words))
        queryLower == ToLower(query)
        k == keywordScore(queryLower)
        p == Cardinality({i \in 1..Len(query) : IsPunct(query[i])})
        lengthE5 == 30 * Min(Len(query), 1000)
        punctE5 == Min(100 * p, 3000)
    IN  IF w = 0
        THEN [nan |-> TRUE, num |-> 0, den |-> 1]
        ELSE [nan |-> FALSE,
              num |-> lengthE5 * w + 30000 * u + (300 * k + punctE5) * w,
              den |-> w]

\* QueryRouter.analyzeQuery
analyzeQuery(req) ==
    [QueryLength |-> Len(req.Query),
     HasContext  |-> Len(req.Context) > 0,
     TokenCount  |-> Len(Fields(req.Query)),
     Complexity  |-> calculateComplexity(req.Query)]

\* fault: the comparison with the threshold is >= instead of >
AtOrAboveThreshold(c) == ~c.nan /\ c.num >= ComplexityThresholdE5 * c.den

\* metrics.Complexity > s.config.ComplexityThreshold (false for NaN)
AboveThreshold(c) == ~c.nan /\ c.num > ComplexityThresholdE5 * c.den

\* fault: the length rule is tested before the complexity rule
DecideLengthFirst(metrics) ==
    IF metrics.TokenCount > MaxTokenCount
    THEN [UseLLM |-> TRUE, Reason |-> "Long query requires cloud LLM processing",
          Confidence |-> 85, ComplexityScore |-> metrics.Complexity]
    ELSE IF AboveThreshold(metrics.Complexity)
    THEN [UseLLM |-> TRUE, Reason |-> "High complexity query requires LLM reasoning",
          Confidence |-> 90, ComplexityScore |-> metrics.Complexity]
    ELSE IF metrics.HasContext
    THEN [UseLLM |-> TRUE, Reason |-> "Context-aware query routed to LLM",
          Confidence |-> 80, ComplexityScore |-> metrics.Complexity]
    ELSE [UseLLM |-> FALSE, Reason |-> "Simple query suitable for edge SLM",
          Confidence |-> 95, ComplexityScore |-> metrics.Complexity]

\* fault: the context rule is tested before the length rule
DecideContextFirst(metrics) ==
    IF AboveThreshold(metrics.Complexity)
    THEN [UseLLM |-> TRUE, Reason |-> "High complexity query requires LLM reasoning",
          Confidence |-> 90, ComplexityScore |-> metrics.Complexity]
    ELSE IF metrics.HasContext
    THEN [UseLLM |-> TRUE, Reason |-> "Context-aware query routed to LLM",
          Confidence |-> 80, ComplexityScore |-> metrics.Complexity]
    ELSE IF metrics.TokenCount > MaxTokenCount
    THEN [UseLLM |-> TRUE, Reason |-> "Long query requires cloud LLM processing",
          Confidence |-> 85, ComplexityScore |-> metrics.Complexity]
    ELSE [UseLLM |-> FALSE, Reason |-> "Simple query suitable for edge SLM",
          Confidence |-> 95, ComplexityScore |-> metrics.Complexity]

\* HybridRoutingStrategy.Decide; Confidence in hundredths
Decide(metrics) ==
    IF AboveThreshold(metrics.Complexity)
    THEN [UseLLM |-> TRUE, Reason |-> "High complexity query requires LLM reasoning",
          Confidence |-> 90, ComplexityScore |-> metrics.Complexity]
    ELSE IF metrics.TokenCount > MaxTokenCount
    THEN [UseLLM |-> TRUE, Reason |-> "Long query requires cloud LLM processing",
          Confidence |-> 85, ComplexityScore |-> metrics.Complexity]
    ELSE IF metrics.HasContext
    THEN [UseLLM |-> TRUE, Reason |-> "Context-aware query routed to LLM",
          Confidence |-> 80, ComplexityScore |-> metrics.Complexity]
    ELSE [UseLLM |-> FALSE, Reason |-> "Simple query suitable for edge SLM",
          Confidence |-> 95, ComplexityScore |-> metrics.Complexity]

\* QueryRouter.Route
Route(req) == Decide(analyzeQuery(req))

(************************** semantic cache *********************************)
queryPrefix == "query:"

\* the embedding service: a fixed-length vector determined by the text
Embedding(text) == <<Len(text), CountOf(text, "|")>>

Dot(a, b) == SeqSum([i \in 1..Len(a) |-> a[i] * b[i]])

\* cosineSimilarity: the value is n / sqrt(d2); 0 on a length mismatch or a zero norm
cosineSimilarity(a, b) ==
    IF Len(a) # Len(b) THEN [n |-> 0, d2 |-> 1]
    ELSE IF Dot(a, a) = 0 \/ Dot(b, b) = 0 THEN [n |-> 0, d2 |-> 1]
    ELSE [n |-> Dot(a, b), d2 |-> Dot(a, a) * Dot(b, b)]

\* x > y on similarities
SimGreater(x, y) ==
    IF x.n >= 0 /\ y.n >= 0 THEN x.n * x.n * y.d2 > y.n * y.n * x.d2
    ELSE IF x.n >= 0 THEN TRUE
    ELSE IF y.n >= 0 THEN FALSE
    ELSE x.n * x.n * y.d2 < y.n * y.n * x.d2

\* fault: a threshold of 1, which no similarity exceeds
ThresholdOne == [n |-> 1, d2 |-> 1]

\* h.similarityThreshold as a similarity value
similarityThreshold == [n |-> SimThresholdNum, d2 |-> SimThresholdDen * SimThresholdDen]

NoMatch == [found |-> FALSE]

\* fault: the scan ends at the first entry whose GET or decoding failed
RECURSIVE ScanKeysUntilUnreadable(_, _, _, _, _, _)
ScanKeysUntilUnreadable(store, keys, unreadable, queryEmbedding, maxSimilarity, bestMatch) ==
    IF keys = <<>> THEN bestMatch
    ELSE LET key == Head(keys)
             entry == store[key]
             similarity == cosineSimilarity(queryEmbedding, entry.Embedding)
         IN  IF key \in unreadable THEN bestMatch
             ELSE IF Len(entry.Embedding) = 0 \/ ~SimGreater(similarity, maxSimilarity)
             THEN ScanKeysUntilUnreadable(store, Tail(keys), unreadable, queryEmbedding,
                                          maxSimilarity, bestMatch)
             ELSE ScanKeysUntilUnreadable(store, Tail(keys), unreadable, queryEmbedding,
                                          similarity,
                                          [found |-> TRUE, Response |-> entry.Response,
                                           Similarity |-> similarity, CacheKey |-> Tail(key)])

\* the loop of GetSimilar over keys (in the order KEYS returned them); entries
\* whose GET or decoding failed, and entries without embedding, are skipped
RECURSIVE ScanKeys(_, _, _, _, _, _)
ScanKeys(store, keys, unreadable, queryEmbedding, maxSimilarity, bestMatch) ==
    IF keys = <<>> THEN bestMatch
    ELSE LET key == Head(keys)
             entry == store[key]
             similarity == cosineSimilarity(queryEmbedding, entry.Embedding)
         IN  IF key \in unreadable \/ Len(entry.Embedding) = 0
                \/ ~SimGreater(similarity, maxSimilarity)
             THEN ScanKeys(store, Tail(keys), unreadable, queryEmbedding,
                           maxSimilarity, bestMatch)
             ELSE ScanKeys(store, Tail(keys), unreadable, queryEmbedding, similarity,
                           [found |-> TRUE, Response |-> entry.Response,
                            Similarity |-> similarity, CacheKey |-> Tail(key)])

\* the keys matching "query:*"
SemanticKeys(store) == {k \in DOMAIN store : Head(k) = queryPrefix}

\* fault: the scan starts from similarity 0 rather than from the threshold
GetSimilarAboveZero(store, keys, unreadable, query, threshold) ==
    ScanKeys(store, keys, unreadable, Embedding(query), [n |-> 0, d2 |-> 1], NoMatch)

\* SemanticCache.GetSimilar once the embedding and the key listing succeeded
GetSimilar(store, keys, unreadable, query, threshold) ==
    ScanKeys(store, keys, unreadable, Embedding(query), threshold, NoMatch)

\* the CachedEntry SetWithEmbedding stores under queryPrefix + key
SemanticEntry(query, response) ==
    [Query |-> query, Embedding |-> Embedding(query), Response |-> response]

StorePut(store, key, val) ==
    [k \in DOMAIN store \cup {key} |-> IF k = key THEN val ELSE store[k]]

StoreDel(store, key) == [k \in DOMAIN store \ {key} |-> store[k]]

(***************************** SLM engine **********************************)
\* A model's text: <<>> is the empty string, <<src>> the text of model src
\* (0: the cloud LLM, i: clients[i])
EmptyText == <<>>

LLMOutput == <<"l", "l", "m">>

TextChars(text) ==
    IF text = EmptyText THEN <<>>
    ELSE IF text[1] = 0 THEN LLMOutput ELSE ModelOutput[text[1]]

RECURSIVE SeqProd(_)
SeqProd(s) == IF s = <<>> THEN 1 ELSE Head(s) * SeqProd(Tail(s))

\* index of the element sort.Slice (an insertion sort at these lengths) with
\* "greater key first" leaves in front: the first one holding the greatest key
FirstMax(keys) ==
    CHOOSE i \in 1..Len(keys) :
        /\ \A j \in 1..Len(keys) : keys[j] <= keys[i]
        /\ \A j \in 1..(i - 1) : keys[j] < keys[i]

\* fault: the results are not sorted by weight before the first is taken
aggregateWeightedUnsorted(results) == results[1].response

\* SLMEngine.aggregateWeighted
aggregateWeighted(results) ==
    results[FirstMax([i \in 1..Len(results) |-> results[i].weight])].response

\* SLMEngine.aggregateLongest
aggregateLongest(results) ==
    results[FirstMax([i \in 1..Len(results) |-> Len(TextChars(results[i].response))])].response

\* SLMEngine.calculateSimilarity as the fraction num / den
calculateSimilarity(s1, s2) ==
    LET words1 == Fields(ToLower(s1))
        words2 == Fields(ToLower(s2))
        common == Cardinality({i \in 1..Len(words2) : words2[i] \in Range(words1)})
        union  == Len(words1) + Len(words2) - common
    IN  IF Len(words1) = 0 \/ Len(words2) = 0 \/ union = 0
        THEN [num |-> 0, den |-> 1]
        ELSE [num |-> common, den |-> union]

\* SLMEngine.aggregateVoting: the scores over their common denominator
aggregateVoting(results) ==
    IF Len(results) = 1 THEN results[1].response
    ELSE
      LET n == Len(results)
          sim(i, j) == calculateSimilarity(TextChars(results[i].response),
                                           TextChars(results[j].response))
          D == SeqProd([k \in 1..(n * n) |->
                           LET i == ((k - 1) \div n) + 1
                               j == ((k - 1) % n) + 1
                           IN  IF i = j THEN 1 ELSE sim(i, j).den])
          score(i) == results[i].weight * D
                      + SeqSum([j \in 1..n |->
                                   IF i = j THEN 0
                                   ELSE sim(i, j).num * results[j].weight * (D \div sim(i, j).den)])
      IN  results[FirstMax([i \in 1..n |-> score(i)])].response

\* fault: a result without error counts as valid even when its text is empty
IsValidAnyText(r) == ~r.err

IsValid(r) == ~r.err /\ r.response # EmptyText

IsError(r) == ~IsValid(r) /\ r.err

\* fault: one failed adapter fails the aggregation
aggregateResultsFailFast(results, fn) ==
    LET failed == SelectSeq(results, IsError)
        errorMessages == [i \in 1..Len(failed) |-> failed[i].modelName]
    IN  IF Len(failed) > 0 \/ Len(SelectSeq(results, IsValid)) = 0
        THEN [err |-> TRUE, response |-> EmptyText, errors |-> errorMessages]
        ELSE [err |-> FALSE, errors |-> <<>>,
              response |-> aggregateWeighted(SelectSeq(results, IsValid))]

\* SLMEngine.aggregateResults
aggregateResults(results, fn) ==
    LET validResults == SelectSeq(results, IsValid)
        failed == SelectSeq(results, IsError)
        errorMessages == [i \in 1..Len(failed) |-> failed[i].modelName]
    IN  IF Len(validResults) = 0
        THEN [err |-> TRUE, response |-> EmptyText, errors |-> errorMessages]
        ELSE [err |-> FALSE, errors |-> <<>>,
              response |-> CASE fn = "weighted" -> aggregateWeighted(validResults)
                             [] fn = "longest"  -> aggregateLongest(validResults)
                             [] fn = "voting"   -> aggregateVoting(validResults)
                             [] OTHER           -> aggregateWeighted(validResults)]

\* the inferenceResult a model goroutine sends: runModel returns "" with an error
inferenceResult(i, text, failed) ==
    [modelName |-> i, response |-> IF failed THEN EmptyText ELSE text,
     weight |-> Weights[i], err |-> failed]

\* inferHybrid: the number of clients of the parallel phase
parallelCount == IF NumClients - 1 < 1 THEN 1 ELSE NumClients - 1

(************************* HandleInference *********************************)
NoDecision == [UseLLM |-> FALSE, Reason |-> "", Confidence |-> 0,
               ComplexityScore |-> [nan |-> FALSE, num |-> 0, den |-> 1]]

NoBody == [none |-> TRUE]

\* a goroutine not serving a request
Idle ==
    [pc |-> "idle", Query |-> <<>>, Context |-> <<>>, cancelled |-> FALSE,
     trace |-> <<>>, cacheKey |-> <<>>, decision |-> NoDecision, results |-> <<>>,
     response |-> EmptyText, modelUsed |-> "", stage |-> 0, admitted |-> FALSE,
     nCalls |-> 0, nLate |-> 0, issued |-> {}, stored |-> {}, status |-> 0,
     body |-> NoBody, ret |-> "none", entrySeen |-> "no"]

\* c.JSON(code, body); return
Reply(l, code, body) == [l EXCEPT !.pc = "done", !.status = code, !.body = body]

\* fault: the handler forgets h.useSemanticCache and starts with the exact lookup
BindRequestExactOnly(l, q, c, semantic) ==
    LET r == [l EXCEPT !.Query = q, !.Context = c]
    IN  IF q = <<>> THEN Reply(r, 400, [error |-> "bind"])
        ELSE [r EXCEPT !.pc = "exact"]

\* fault: the result of ShouldBindJSON is not looked at
BindRequestUnchecked(l, q, c, semantic) ==
    [l EXCEPT !.Query = q, !.Context = c,
              !.pc = IF semantic THEN "semantic" ELSE "exact"]

\* ShouldBindJSON (Query is binding:"required") and the choice of the first lookup;
\* a body that is not JSON fails like one without query, and binds no field
BindRequest(l, q, c, semantic) ==
    LET r == [l EXCEPT !.Query = q, !.Context = c]
    IN  IF q = <<>> THEN Reply(r, 400, [error |-> "bind"])
        ELSE [r EXCEPT !.pc = IF semantic THEN "semantic" ELSE "exact"]

\* the response a semantic hit returns: CacheHit set, RoutingReason annotated
SemanticHitResponse(match) ==
    [match.Response EXCEPT !.CacheHit = TRUE,
        !.RoutingReason = Append(@, <<"semantic cache hit, similarity", match.Similarity>>)]

\* fault: an error of GetSimilar is reported to the client
OnGetSimilarFatal(l, err, match) ==
    LET r == [l EXCEPT !.trace = Append(@, "GetSimilar")]
    IN  IF err THEN Reply(r, 500, [error |-> "cache"])
        ELSE IF match.found
        THEN Reply(r, 200, SemanticHitResponse(match))
        ELSE [r EXCEPT !.pc = "exact"]

\* lines 66-94: after GetSimilar returned (err, match)
OnGetSimilar(l, err, match) ==
    LET r == [l EXCEPT !.trace = Append(@, "GetSimilar")]
    IN  IF ~err /\ match.found
        THEN Reply(r, 200, SemanticHitResponse(match))
        ELSE [r EXCEPT !.pc = "exact"]

\* fault: the hit branch writes the cached response but does not return
OnExactGetNoReturn(l, err, found, cachedResp) ==
    LET r == [l EXCEPT !.trace = Append(@, "Get"),
                       !.cacheKey = GenerateCacheKey([Query |-> l.Query, Context |-> l.Context])]
    IN  IF ~err /\ found
        THEN [r EXCEPT !.pc = "route", !.status = 200,
                       !.body = [cachedResp EXCEPT !.CacheHit = TRUE]]
        ELSE [r EXCEPT !.pc = "route"]

\* fault: a hit stores the response it returns again
OnExactGetRestore(l, err, found, cachedResp) ==
    LET r == [l EXCEPT !.trace = Append(@, "Get"),
                       !.cacheKey = GenerateCacheKey([Query |-> l.Query, Context |-> l.Context])]
    IN  IF ~err /\ found
        THEN [r EXCEPT !.pc = "writeback", !.response = cachedResp.Response,
                       !.modelUsed = cachedResp.ModelUsed,
                       !.decision.Reason = <<cachedResp.RoutingReason[1], "cache hit">>]
        ELSE [r EXCEPT !.pc = "route"]

\* lines 97-121: after cache.Get(cacheKey) returned (err, found, cachedResp)
OnExactGet(l, err, found, cachedResp) ==
    LET r == [l EXCEPT !.trace = Append(@, "Get"),
                       !.cacheKey = GenerateCacheKey([Query |-> l.Query, Context |-> l.Context])]
    IN  IF ~err /\ found
        THEN Reply(r, 200, [cachedResp EXCEPT !.CacheHit = TRUE])
        ELSE [r EXCEPT !.pc = "route"]

\* lines 124-128: router.Route never returns an error
OnRoute(l) ==
    [l EXCEPT !.trace = Append(@, "Route"), !.pc = "infer",
              !.decision = Route([Query |-> l.Query, Context |-> l.Context])]

\* fault: the error of Infer is ignored and the empty response is cached
OnInferReturnIgnoreErr(l, err, text, modelUsed) ==
    [l EXCEPT !.trace = Append(@, "InferRet"), !.admitted = FALSE,
              !.results = <<>>, !.stage = 0, !.modelUsed = modelUsed,
              !.pc = "writeback", !.response = IF err THEN EmptyText ELSE text]

\* lines 141-174: after the chosen Infer returned (err, text)
OnInferReturn(l, err, text, modelUsed) ==
    LET r == [l EXCEPT !.trace = Append(@, "InferRet"), !.admitted = FALSE,
                       !.results = <<>>, !.stage = 0, !.modelUsed = modelUsed]
    IN  IF err
        THEN Reply([r EXCEPT !.response = EmptyText], 500,
                   [error |-> "inference", model |-> modelUsed, routing |-> l.decision.Reason])
        ELSE [r EXCEPT !.pc = "writeback", !.response = text]

\* the chosen Infer returns (err, text) to HandleInference
Return(l, err, text, modelUsed) ==
    OnInferReturn([l EXCEPT !.ret = IF err THEN "err" ELSE "ok"], err, text, modelUsed)

\* lines 166-174: the InferenceResponse built from a fresh model output
FreshResult(l) ==
    [Response |-> l.response, ModelUsed |-> l.modelUsed,
     RoutingReason |-> <<l.decision.Reason>>, CacheHit |-> FALSE]

\* fault: the response is written to the semantic tier and to the exact tier
WriteBothTiers(semantic) == {"semantic", "exact"}

\* lines 177-183: the cache tier the response is written to
WriteTier(semantic) == IF semantic THEN {"semantic"} ELSE {"exact"}

\* fault: a failed write-back fails the request
OnWriteBackFatal(l, tiers, ok) ==
    LET r == [l EXCEPT !.trace = Append(@, "WriteBack"),
                       !.issued = @ \cup tiers,
                       !.stored = IF ok THEN @ \cup tiers ELSE @]
    IN  IF ok THEN Reply(r, 200, FreshResult(l))
        ELSE Reply(r, 500, [error |-> "cache"])

\* lines 176-185: after the write-back call(s) returned (the error is dropped)
OnWriteBack(l, tiers, ok) ==
    Reply([l EXCEPT !.trace = Append(@, "WriteBack"),
                    !.issued = @ \cup tiers,
                    !.stored = IF ok THEN @ \cup tiers ELSE @],
          200, FreshResult(l))

\* the keyspace after SetWithEmbedding / Set succeeded on the given tiers
WriteStore(store, l, tiers) ==
    LET s1 == IF "semantic" \in tiers
              THEN StorePut(store, <<queryPrefix>> \o l.cacheKey,
                            SemanticEntry(l.Query, FreshResult(l)))
              ELSE store
    IN  IF "exact" \in tiers THEN StorePut(s1, l.cacheKey, FreshResult(l)) ELSE s1

\* the context was cancelled before the step that logged ev
CancelledBefore(l, ev) ==
    \E i, j \in 1..Len(l.trace) : i < j /\ l.trace[i] = "Cancel" /\ l.trace[j] = ev

\* a model call is made: runModel / LLMClient.Infer reach GenerateFromSinglePrompt;
\* late tells whether the call was started on an already cancelled context
Called(l, late) ==
    [l EXCEPT !.nCalls = @ + 1, !.nLate = @ + (IF late THEN 1 ELSE 0)]

\* the texts model src may return on success: one text, naming the model
Outputs(src) == {<<src>>}

(************************ SLM engine, step by step *************************)
\* the clients a parallel phase runs: all of them (inferParallel) or the
\* first parallelCount (inferHybrid)
ParallelClients(strat) ==
    IF strat = "hybrid" THEN 1..parallelCount ELSE 1..NumClients

\* SLMEngine.Infer lines 133-144: the strategy switch, the gate being passed
OnAdmit(l, strat) ==
    [l EXCEPT !.admitted = TRUE, !.results = <<>>,
              !.stage = IF strat = "series" THEN 1 ELSE 0,
              !.pc = CASE strat = "parallel" -> "par"
                       [] strat = "hybrid"   -> "par"
                       [] strat = "series"   -> "series"
                       [] OTHER              -> "single"]

\* inferParallel lines 176-183, inferHybrid lines 249-259: all results collected
OnParallelDone(l, strat, fn) ==
    LET agg == aggregateResults(l.results, fn)
    IN  IF strat = "hybrid" /\ ~agg.err /\ NumClients > 1
        THEN [l EXCEPT !.pc = "refine", !.response = agg.response, !.results = <<>>]
        ELSE Return(l, agg.err, agg.response, "edge-slm")

\* inferHybrid lines 262-276: the last model's refinement returned
OnRefine(l, failed, text) ==
    IF failed THEN Return(l, FALSE, l.response, "edge-slm")
    ELSE Return(l, FALSE, text, "edge-slm")

\* buildPrompt: the query, preceded by the context when there is one
buildPrompt(req) ==
    IF req.Context # <<>>
    THEN <<"Context: ", req.Context, "Question: ", req.Query>>
    ELSE <<req.Query>>

\* inferSeries lines 197-201: the prompt of a refinement stage
refinementPrompt(query, response) ==
    <<"Original query: ", query, "Previous response: ", response>>

\* the prompt inferSeries gives to the model of stage l.stage
SeriesPrompt(l) ==
    IF l.stage = 1 THEN buildPrompt([Query |-> l.Query, Context |-> l.Context])
    ELSE refinementPrompt(l.Query, l.response)

\* fault: a failed refinement stage is skipped and the next stage is run
SeriesStageSkipFailed(l, failed, text, n) ==
    IF failed /\ l.stage = 1 THEN Return(l, TRUE, EmptyText, "edge-slm")
    ELSE IF l.stage = n
         THEN Return(l, FALSE, IF failed THEN l.response ELSE text, "edge-slm")
         ELSE [l EXCEPT !.stage = @ + 1, !.response = IF failed THEN @ ELSE text]

\* inferSeries lines 191-212 with n clients: the model of stage l.stage returned
SeriesStage(l, failed, text, n) ==
    IF failed
    THEN IF l.stage = 1 THEN Return(l, TRUE, EmptyText, "edge-slm")
         ELSE Return(l, FALSE, l.response, "edge-slm")
    ELSE IF l.stage = n THEN Return(l, FALSE, text, "edge-slm")
         ELSE [l EXCEPT !.stage = @ + 1, !.response = text]

\* inferSeries lines 191-212: the model of stage l.stage returned
OnSeriesStage(l, failed, text) == SeriesStage(l, failed, text, NumClients)

(******************************* actions ***********************************)
EmptyStore == [k \in {} |-> NoBody]

inflight == Cardinality({w \in Workers : st[w].admitted})

\* a model call fails when its context is already cancelled, and may fail otherwise
Failures(l) == IF l.cancelled THEN {TRUE} ELSE BOOLEAN

\* a cache call fails when its context is already cancelled or the backend is down
CacheFails(l) == l.cancelled \/ ~up

\* no call has just returned
Quiet == \A w \in Workers : st[w].pc # "done"

Init ==
    /\ useSemanticCache \in BOOLEAN
    /\ \E c \in EngineConfigs : strategy = c[1] /\ aggregationFn = c[2]
    /\ redis = EmptyStore
    /\ st = [w \in Workers |-> Idle]
    /\ nextId = 1
    /\ up = TRUE
    /\ fnArgs = <<>>
    /\ fnOut = <<>>

Config == <<useSemanticCache, strategy, aggregationFn>>

\* a request arrives at HandleInference
Start(w) ==
    /\ Quiet
    /\ st[w].pc = "idle"
    /\ \A v \in Workers : Rank(v) < Rank(w) => st[v].pc # "idle"
    /\ nextId <= MaxReq
    /\ \E req \in Requests :
          st' = [st EXCEPT ![w] = BindRequest(Idle, req.Query, req.Context, useSemanticCache)]
    /\ nextId' = nextId + 1
    /\ UNCHANGED <<Config, redis, up, fnArgs, fnOut>>

\* the caller cancels the request's context
Cancel(w) ==
    /\ Quiet
    /\ st[w].pc \notin {"idle", "done"}
    /\ ~st[w].cancelled
    /\ st' = [st EXCEPT ![w].cancelled = TRUE, ![w].trace = Append(@, "Cancel")]
    /\ UNCHANGED <<Config, redis, nextId, up, fnArgs, fnOut>>

\* the entry SetWithEmbedding stored for this request's query and context, if any
SemanticEntryKey(l) ==
    <<queryPrefix>> \o GenerateCacheKey([Query |-> l.Query, Context |-> l.Context])

HasSemanticEntry(l) ==
    /\ SemanticEntryKey(l) \in DOMAIN redis
    /\ redis[SemanticEntryKey(l)].Query = l.Query

\* what the first lookup of a request met: its own entry, readable or not
Seen(l, present) ==
    [l EXCEPT !.entrySeen = IF ~present THEN "no"
                            ELSE IF CacheFails(l) THEN "unreadable" ELSE "readable"]

\* semanticCache.GetSimilar: the embedding or the key listing fails, or the scan
\* runs over the keys in the order KEYS returned them
GetSimilarStep(w) ==
    /\ Quiet
    /\ st[w].pc = "semantic"
    /\ LET l == Seen(st[w], HasSemanticEntry(st[w]))
       IN  IF CacheFails(st[w])
           THEN st' = [st EXCEPT ![w] = OnGetSimilar(l, TRUE, NoMatch)]
           ELSE \E keys \in Perms(SemanticKeys(redis)) :
                   st' = [st EXCEPT ![w] =
                             OnGetSimilar(l, FALSE,
                                          GetSimilar(redis, keys, {}, l.Query,
                                                     similarityThreshold))]
    /\ UNCHANGED <<Config, redis, nextId, up, fnArgs, fnOut>>

\* lines 97-128: cache.Get(cacheKey) on the exact tier (RedisCache.Get) and, on a
\* miss, router.Route, which is a computation on the request alone
Routed(l) == IF l.pc = "route" THEN OnRoute(l) ELSE l

ExactGetStep(w) ==
    /\ Quiet
    /\ st[w].pc = "exact"
    /\ LET key == GenerateCacheKey([Query |-> st[w].Query, Context |-> st[w].Context])
           l == IF useSemanticCache THEN st[w] ELSE Seen(st[w], key \in DOMAIN redis)
       IN  st' = [st EXCEPT ![w] =
                     IF CacheFails(st[w]) THEN Routed(OnExactGet(l, TRUE, FALSE, NoBody))
                     ELSE IF key \in DOMAIN redis
                          THEN Routed(OnExactGet(l, FALSE, TRUE, redis[key]))
                          ELSE Routed(OnExactGet(l, FALSE, FALSE, NoBody))]
    /\ UNCHANGED <<Config, redis, nextId, up, fnArgs, fnOut>>

\* decision.UseLLM: llmClient.Infer
LLMInfer(w) ==
    /\ Quiet
    /\ st[w].pc = "infer"
    /\ st[w].decision.UseLLM
    /\ LET l == Called([st[w] EXCEPT !.trace = Append(@, "Infer")], st[w].cancelled)
       IN  \E failed \in Failures(st[w]), text \in Outputs(0) :
              st' = [st EXCEPT ![w] = Return(l, failed, text, "cloud-llm")]
    /\ UNCHANGED <<Config, redis, nextId, up, fnArgs, fnOut>>

\* slmEngine.Infer lines 123-128: the select on the gate and on ctx.Done()
SLMAdmit(w) ==
    /\ Quiet
    /\ st[w].pc = "infer"
    /\ ~st[w].decision.UseLLM
    /\ LET l == [st[w] EXCEPT !.trace = Append(@, "Infer")]
       IN  \/ /\ inflight < MaxConcurrent
              /\ st' = [st EXCEPT ![w] = OnAdmit(l, strategy)]
           \/ /\ st[w].cancelled
              /\ st' = [st EXCEPT ![w] = Return(l, TRUE, EmptyText, "edge-slm")]
    /\ UNCHANGED <<Config, redis, nextId, up, fnArgs, fnOut>>

\* one goroutine of a parallel phase: runModel, then the send on results; the
\* last send lets the collector close the channel, drain it and aggregate.  The
\* goroutines are all started on admission, so their calls are late only when
\* the context was cancelled by then
Collected(l, strat, fn) ==
    IF Len(l.results) = Cardinality(ParallelClients(strat))
    THEN OnParallelDone(l, strat, fn) ELSE l

RunModelParallel(w, i) ==
    /\ Quiet
    /\ st[w].pc = "par"
    /\ i \in ParallelClients(strategy)
    /\ \A k \in 1..Len(st[w].results) : st[w].results[k].modelName # i
    /\ \E failed \in Failures(st[w]), text \in Outputs(i) :
          st' = [st EXCEPT ![w] =
                    Collected([Called(st[w], CancelledBefore(st[w], "Infer")) EXCEPT
                                  !.results = Append(@, inferenceResult(i, text, failed))],
                              strategy, aggregationFn)]
    /\ UNCHANGED <<Config, redis, nextId, up, fnArgs, fnOut>>

RefineStep(w) ==
    /\ Quiet
    /\ st[w].pc = "refine"
    /\ \E failed \in Failures(st[w]), text \in Outputs(NumClients) :
          st' = [st EXCEPT ![w] = OnRefine(Called(st[w], st[w].cancelled), failed, text)]
    /\ UNCHANGED <<Config, redis, nextId, up, fnArgs, fnOut>>

SeriesStep(w) ==
    /\ Quiet
    /\ st[w].pc = "series"
    /\ \E failed \in Failures(st[w]), text \in Outputs(st[w].stage) :
          st' = [st EXCEPT ![w] = OnSeriesStage(Called(st[w], st[w].cancelled), failed, text)]
    /\ UNCHANGED <<Config, redis, nextId, up, fnArgs, fnOut>>

\* an unrecognized strategy: inferSingleModel on clients[0]
SingleStep(w) ==
    /\ Quiet
    /\ st[w].pc = "single"
    /\ \E failed \in Failures(st[w]), text \in Outputs(1) :
          st' = [st EXCEPT ![w] = Return(Called(st[w], st[w].cancelled), failed, text, "edge-slm")]
    /\ UNCHANGED <<Config, redis, nextId, up, fnArgs, fnOut>>

\* SetWithEmbedding or Set, then c.JSON(200, result)
WriteBackStep(w) ==
    /\ Quiet
    /\ st[w].pc = "writeback"
    /\ st' = [st EXCEPT ![w] = OnWriteBack(st[w], WriteTier(useSemanticCache),
                                           ~CacheFails(st[w]))]
    /\ redis' = IF CacheFails(st[w]) THEN redis
                ELSE WriteStore(redis, st[w], WriteTier(useSemanticCache))
    /\ UNCHANGED <<Config, nextId, up, fnArgs, fnOut>>

\* HandleInference has returned: its locals are gone before anything else happens
Finish(w) ==
    /\ st[w].pc = "done"
    /\ st' = [st EXCEPT ![w] = Idle]
    /\ UNCHANGED <<Config, redis, nextId, up, fnArgs, fnOut>>

\* the TTL of a key elapses
Expire(k) ==
    /\ Quiet
    /\ k \in DOMAIN redis
    /\ redis' = StoreDel(redis, k)
    /\ UNCHANGED <<Config, st, nextId, up, fnArgs, fnOut>>

\* Redis or the embedding service stops answering, or answers again
Outage ==
    /\ Quiet
    /\ up' = ~up
    /\ UNCHANGED <<Config, redis, st, nextId, fnArgs, fnOut>>

Next ==
    \/ \E w \in Workers :
          \/ Start(w) \/ Cancel(w) \/ GetSimilarStep(w) \/ ExactGetStep(w)
          \/ LLMInfer(w) \/ SLMAdmit(w)
          \/ (\E i \in 1..NumClients : RunModelParallel(w, i))
          \/ RefineStep(w) \/ SeriesStep(w) \/ SingleStep(w)
          \/ WriteBackStep(w) \/ Finish(w)
    \/ \E k \in DOMAIN redis : Expire(k)
    \/ Outage

Spec == Init /\ [][Next]_vars

(********************* GenerateCacheKey on its own *************************)
\* the requests GenerateCacheKey is applied to
KeyInputs ==
    {[Query |-> q, Context |-> c] : q \in StringsUpTo(MaxStrLen), c \in StringsUpTo(MaxStrLen)}

KeyInit ==
    /\ useSemanticCache = FALSE
    /\ strategy = "single"
    /\ aggregationFn = "weighted"
    /\ redis = EmptyStore
    /\ st = [w \in Workers |-> Idle]
    /\ nextId = 1
    /\ up = TRUE
    /\ fnArgs \in KeyInputs \X KeyInputs
    /\ fnOut = <<>>

\* GenerateCacheKey is called on each of the two requests
ApplyKey ==
    /\ fnOut = <<>>
    /\ fnOut' = <<GenerateCacheKey(fnArgs[1]), GenerateCacheKey(fnArgs[2])>>
    /\ UNCHANGED <<Config, redis, st, nextId, up, fnArgs>>

SpecKey == KeyInit /\ [][ApplyKey]_vars

(***************************** Decide on its own ***************************)
\* complexity scores: NaN, 0, 1.0, and fractions at, just below and just above
\* the threshold
ComplexityScores ==
    {[nan |-> TRUE, num |-> 0, den |-> 1],
     [nan |-> FALSE, num |-> 0, den |-> 1],
     [nan |-> FALSE, num |-> 100000, den |-> 1]}
    \cup {[nan |-> FALSE, num |-> ComplexityThresholdE5 * d + e, den |-> d] :
              d \in 1..MaxDen, e \in (0 - MaxDelta)..MaxDelta}

TokenCounts ==
    {0, 1} \cup {MaxTokenCount + e : e \in (0 - MaxDelta)..MaxDelta} \cup {MaxTokenCount + 50}

MetricsInputs ==
    {[QueryLength |-> 0, HasContext |-> h, TokenCount |-> t, Complexity |-> c] :
        h \in BOOLEAN, t \in TokenCounts, c \in ComplexityScores}

DecideInit ==
    /\ useSemanticCache = FALSE
    /\ strategy = "single"
    /\ aggregationFn = "weighted"
    /\ redis = EmptyStore
    /\ st = [w \in Workers |-> Idle]
    /\ nextId = 1
    /\ up = TRUE
    /\ fnArgs \in {<<m>> : m \in MetricsInputs}
    /\ fnOut = <<>>

\* strategy.Decide is called on the metrics
ApplyDecide ==
    /\ fnOut = <<>>
    /\ fnOut' = <<Decide(fnArgs[1])>>
    /\ UNCHANGED <<Config, redis, st, nextId, up, fnArgs>>

SpecDecide == DecideInit /\ [][ApplyDecide]_vars

(***************************** RedisCache on its own ***********************)
\* json.Marshal / json.Unmarshal of an InferenceResponse: the object's members
\* under their json names
Marshal(response) ==
    << <<"response", response.Response>>, <<"model_used", response.ModelUsed>>,
       <<"routing_reason", response.RoutingReason>>, <<"cache_hit", response.CacheHit>> >>

Member(data, name) == data[CHOOSE i \in 1..Len(data) : data[i][1] = name][2]

Unmarshal(data) ==
    [Response |-> Member(data, "response"), ModelUsed |-> Member(data, "model_used"),
     RoutingReason |-> Member(data, "routing_reason"), CacheHit |-> Member(data, "cache_hit")]

\* a stored value json.Unmarshal rejects (the empty value: "unexpected end of
\* JSON input")
NotJSON == <<>>

\* RedisCache.Get: (nil, err), (nil, nil) for redis.Nil, (nil, err) when the
\* value does not unmarshal, or the decoded response
RedisCacheGet(store, key, fails) ==
    IF fails THEN [err |-> TRUE, response |-> NoBody]
    ELSE IF key \notin DOMAIN store THEN [err |-> FALSE, response |-> NoBody]
    ELSE IF store[key] = NotJSON THEN [err |-> TRUE, response |-> NoBody]
    ELSE [err |-> FALSE, response |-> Unmarshal(store[key])]

\* fault: Set stores every response under one fixed key
RedisCacheSetOneSlot(store, key, response, fails) ==
    IF fails THEN store ELSE StorePut(store, "k1", Marshal(response))

\* RedisCache.Set: SET key data EX ttl
RedisCacheSet(store, key, response, fails) ==
    IF fails THEN store ELSE StorePut(store, key, Marshal(response))

\* RedisCache.Delete: DEL key
RedisCacheDelete(store, key, fails) ==
    IF fails THEN store ELSE StoreDel(store, key)

CacheKeys == {"k1", "k2"}

CacheValues ==
    {[Response |-> <<t>>, ModelUsed |-> "edge-slm", RoutingReason |-> << "r" >>,
      CacheHit |-> FALSE] : t \in 1..NumClients}

CacheInit ==
    /\ useSemanticCache = FALSE
    /\ strategy = "single"
    /\ aggregationFn = "weighted"
    /\ redis = EmptyStore
    /\ st = [w \in Workers |-> Idle]
    /\ nextId = 1
    /\ up = TRUE
    /\ fnArgs = <<>>
    /\ fnOut = <<>>

\* fnArgs is the log of the calls made so far, fnOut what the last Get returned
CacheSet(k, v) ==
    /\ Len(fnArgs) < MaxOps
    /\ redis' = RedisCacheSet(redis, k, v, ~up)
    /\ fnArgs' = Append(fnArgs, [op |-> "Set", key |-> k, value |-> v, err |-> ~up])
    /\ UNCHANGED <<Config, st, nextId, up, fnOut>>

CacheGet(k) ==
    /\ Len(fnArgs) < MaxOps
    /\ fnOut' = <<RedisCacheGet(redis, k, ~up)>>
    /\ fnArgs' = Append(fnArgs, [op |-> "Get", key |-> k,
                                 value |-> RedisCacheGet(redis, k, ~up).response,
                                 err |-> RedisCacheGet(redis, k, ~up).err,
                                 undecodable |-> up /\ k \in DOMAIN redis
                                                    /\ redis[k] = NotJSON])
    /\ UNCHANGED <<Config, redis, st, nextId, up>>

CacheDelete(k) ==
    /\ Len(fnArgs) < MaxOps
    /\ redis' = RedisCacheDelete(redis, k, ~up)
    /\ fnArgs' = Append(fnArgs, [op |-> "Delete", key |-> k, value |-> NoBody, err |-> ~up])
    /\ UNCHANGED <<Config, st, nextId, up, fnOut>>

\* the TTL of a key elapses and Redis evicts it
CacheExpire(k) ==
    /\ Len(fnArgs) < MaxOps
    /\ k \in DOMAIN redis
    /\ redis' = StoreDel(redis, k)
    /\ fnArgs' = Append(fnArgs, [op |-> "Expire", key |-> k, value |-> NoBody, err |-> FALSE])
    /\ UNCHANGED <<Config, st, nextId, up, fnOut>>

\* another client of the Redis instance overwrites the value of a key with one
\* that is not the JSON of a response
CacheCorrupt(k) ==
    /\ Len(fnArgs) < MaxOps
    /\ up
    /\ k \in DOMAIN redis
    /\ redis' = StorePut(redis, k, NotJSON)
    /\ fnArgs' = Append(fnArgs, [op |-> "Corrupt", key |-> k, value |-> NoBody, err |-> FALSE])
    /\ UNCHANGED <<Config, st, nextId, up, fnOut>>

CacheNext ==
    \/ \E k \in CacheKeys, v \in CacheValues : CacheSet(k, v)
    \/ \E k \in CacheKeys : CacheGet(k) \/ CacheDelete(k) \/ CacheExpire(k) \/ CacheCorrupt(k)
    \/ Outage

SpecCache == CacheInit /\ [][CacheNext]_vars

(************************ aggregateResults on its own **********************)
\* what one adapter may have sent: an error (with the empty text runModel
\* returns beside it), an empty text without error, or one of the texts
AdapterOutcomes ==
    {[response |-> EmptyText, err |-> TRUE], [response |-> EmptyText, err |-> FALSE]}
    \cup {[response |-> <<t>>, err |-> FALSE] : t \in 1..Len(ModelOutput)}

\* configured weights 1.0, 2.0 and 1.5, in tenths
WeightChoices == {10, 20, 15}

\* the slices aggregateResults may be given: results in their order of arrival
ResultSlices ==
    UNION {{[i \in 1..n |-> [modelName |-> i, response |-> o[i].response,
                             weight |-> wt[i], err |-> o[i].err]] :
               o \in [1..n -> AdapterOutcomes], wt \in [1..n -> WeightChoices]} :
           n \in 1..MaxResults}

AggInit ==
    /\ useSemanticCache = FALSE
    /\ strategy = "parallel"
    /\ aggregationFn \in AggregationFns \cup {"unknown"}
    /\ redis = EmptyStore
    /\ st = [w \in Workers |-> Idle]
    /\ nextId = 1
    /\ up = TRUE
    /\ fnArgs \in {<<r>> : r \in ResultSlices}
    /\ fnOut = <<>>

\* aggregateResults is called on the collected results
ApplyAggregate ==
    /\ fnOut = <<>>
    /\ fnOut' = <<aggregateResults(fnArgs[1], aggregationFn)>>
    /\ UNCHANGED <<Config, redis, st, nextId, up, fnArgs>>

SpecAgg == AggInit /\ [][ApplyAggregate]_vars

(********************** calculateComplexity on its own *********************)
\* the pieces query texts are put together from: the nine trigger phrases, a
\* word in both cases, a space and a punctuation mark
QueryParts ==
    Range(complexityKeywords) \cup {<<"a">>, <<"A">>, <<" ">>, <<"?">>}

RECURSIVE Texts(_)
Texts(n) ==
    IF n = 0 THEN {<<>>}
    ELSE Texts(n - 1) \cup {t \o p : t \in Texts(n - 1), p \in QueryParts}

RECURSIVE Join(_)
Join(parts) ==
    IF parts = <<>> THEN <<>> ELSE Head(parts) \o <<" ">> \o Join(Tail(parts))

\* a long query of distinct words: the nine trigger phrases, a run of 30
\* question marks and a word of 1000 letters
LongQuery ==
    Join(complexityKeywords) \o [i \in 1..30 |-> "?"] \o <<" ">> \o [i \in 1..1000 |-> "a"]

\* fnArgs is the query text (ShouldBindJSON accepts every text but the empty
\* one), fnOut the score calculateComplexity returns for it, with the keyword
\* component it computed on the way
ComplexityInit ==
    /\ useSemanticCache = FALSE
    /\ strategy = "single"
    /\ aggregationFn = "weighted"
    /\ redis = EmptyStore
    /\ st = [w \in Workers |-> Idle]
    /\ nextId = 1
    /\ up = TRUE
    /\ fnArgs \in (Texts(MaxParts) \cup {LongQuery}) \ {<<>>}
    /\ fnOut = [pending |-> TRUE]

ApplyComplexity ==
    /\ "pending" \in DOMAIN fnOut
    /\ fnOut' = calculateComplexity(fnArgs) @@ [keywordScore |-> keywordScore(ToLower(fnArgs))]
    /\ UNCHANGED <<Config, redis, st, nextId, up, fnArgs>>

SpecComplexity == ComplexityInit /\ [][ApplyComplexity]_vars

(******************* HandleChat on the shared cache store ******************)
\* NewChatHandler's model names
llmModelName == "gpt-3.5-turbo"
slmModelName == "llama-3.1-8b-instant"

\* ChatHandler.HandleChat for the first message of a new session (the
\* conversation context is then empty), on context.Background(): exact
\* lookup, routing, inference and the Set of the response under the key of
\* (message, context).  A hit, a failed inference and a failed Set leave the
\* keyspace as it is; the engine's gate must have a free slot for an SLM call.
\* The message is the query "a" of Requests.
HandleChat ==
    /\ Quiet
    /\ up
    /\ \E message \in {<<"a">>} :
          LET inferenceReq == [Query |-> message, Context |-> <<>>]
              cacheKey == GenerateCacheKey(inferenceReq)
              decision == Route(inferenceReq)
          IN  /\ cacheKey \notin DOMAIN redis
              /\ decision.UseLLM \/ inflight < MaxConcurrent
              /\ \E response \in IF decision.UseLLM THEN Outputs(0)
                                  ELSE UNION {Outputs(i) : i \in 1..NumClients} :
                    redis' = StorePut(redis, cacheKey,
                                 [Response |-> response,
                                  ModelUsed |-> IF decision.UseLLM THEN llmModelName
                                                ELSE slmModelName,
                                  RoutingReason |-> <<decision.Reason>>,
                                  CacheHit |-> FALSE])
    /\ UNCHANGED <<Config, st, nextId, up, fnArgs, fnOut>>

ChatNext == Next \/ HandleChat

SpecChat == Init /\ [][ChatNext]_vars

(************************** inferSeries on its own *************************)
\* a request the gate has admitted to an engine of fnArgs[1] clients under the
\* series strategy; fnOut is the log of the calls runModel has served
SeriesRequest(req) ==
    OnAdmit([BindRequest(Idle, req.Query, req.Context, FALSE) EXCEPT
                !.trace = <<"Infer">>], "series")

SeriesInit ==
    /\ useSemanticCache = FALSE
    /\ strategy = "series"
    /\ aggregationFn = "weighted"
    /\ redis = EmptyStore
    /\ \E req \in {r \in Requests : r.Query # <<>>} :
          st = [w \in Workers |-> IF Rank(w) = 1 THEN SeriesRequest(req) ELSE Idle]
    /\ nextId = 1
    /\ up = TRUE
    /\ fnArgs \in {<<n>> : n \in 1..MaxStages}
    /\ fnOut = <<>>

\* runModel on clients[stage - 1] returns a text, which the adapter may leave
\* empty, or an error
SeriesCall(w) ==
    /\ st[w].pc = "series"
    /\ \E failed \in Failures(st[w]), text \in {<<st[w].stage>>, <<0>>, EmptyText} :
          /\ st' = [st EXCEPT ![w] =
                       SeriesStage(Called(st[w], st[w].cancelled), failed, text, fnArgs[1])]
          /\ fnOut' = Append(fnOut, [model |-> st[w].stage, prompt |-> SeriesPrompt(st[w]),
                                     failed |-> failed,
                                     text |-> IF failed THEN EmptyText ELSE text])
    /\ UNCHANGED <<Config, redis, nextId, up, fnArgs>>

SeriesNext == \E w \in Workers : SeriesCall(w) \/ Cancel(w)

SpecSeries == SeriesInit /\ [][SeriesNext]_vars

(************************** GetSimilar on its own **************************)
\* the entries a store may hold under "query:" + key: entries written by
\* SetWithEmbedding for a query text, and an entry that carries no embedding
SimEntries ==
    {SemanticEntry(q, q) : q \in {<<"a">>, <<"a", "|">>, <<"|">>}}
        \cup {[Query |-> <<"a">>, Embedding |-> <<>>, Response |-> <<"a">>]}

\* fnArgs is a call of GetSimilar: the store, the keys in the order KEYS gave
\* them (the store ranging over all assignments of entries to keys, every
\* order of entries is scanned), the keys whose GET fails, the query and the
\* threshold (the configured 0.85, or 2/sqrt(5), the similarity of "a" and "a|")
SimInit ==
    /\ useSemanticCache = TRUE
    /\ strategy = "single"
    /\ aggregationFn = "weighted"
    /\ redis = EmptyStore
    /\ st = [w \in Workers |-> Idle]
    /\ nextId = 1
    /\ up = TRUE
    /\ \E n \in 0..MaxEntries :
       \E store \in [{<<queryPrefix, i>> : i \in 1..n} -> SimEntries],
          keys \in {[i \in 1..n |-> <<queryPrefix, i>>]},
          unreadable \in SUBSET {<<queryPrefix, i>> : i \in 1..n},
          query \in {<<"a">>, <<"a", "|">>},
          threshold \in {similarityThreshold, [n |-> 2, d2 |-> 5]} :
            fnArgs = [store |-> store, keys |-> keys, unreadable |-> unreadable,
                      query |-> query, threshold |-> threshold]
    /\ fnOut = [pending |-> TRUE]

ApplyGetSimilar ==
    /\ "pending" \in DOMAIN fnOut
    /\ fnOut' = GetSimilar(fnArgs.store, fnArgs.keys, fnArgs.unreadable,
                           fnArgs.query, fnArgs.threshold)
    /\ UNCHANGED <<Config, redis, st, nextId, up, fnArgs>>

SpecSim == SimInit /\ [][ApplyGetSimilar]_vars

(********************** calculateSimilarity on its own *********************)
\* fnArgs is a pair of responses, texts of up to MaxStrLen + 1 characters over
\* two words, an upper-case letter and the space; fnOut holds the similarity
\* of the pair in both orders
SimilarityInit ==
    /\ useSemanticCache = FALSE
    /\ strategy = "parallel"
    /\ aggregationFn = "voting"
    /\ redis = EmptyStore
    /\ st = [w \in Workers |-> Idle]
    /\ nextId = 1
    /\ up = TRUE
    /\ \E k1, k2 \in 0..(MaxStrLen + 1) :
       \E s1 \in [1..k1 -> {"x", "X", "y", " "}], s2 \in [1..k2 -> {"x", "X", "y", " "}] :
          fnArgs = <<s1, s2>>
    /\ fnOut = [pending |-> TRUE]

ApplySimilarity ==
    /\ "pending" \in DOMAIN fnOut
    /\ fnOut' = [forward |-> calculateSimilarity(fnArgs[1], fnArgs[2]),
                 backward |-> calculateSimilarity(fnArgs[2], fnArgs[1])]
    /\ UNCHANGED <<Config, redis, st, nextId, up, fnArgs>>

SpecSimilarity == SimilarityInit /\ [][ApplySimilarity]_vars

(******************* inferParallel and inferHybrid on their own ************)
\* fnArgs is an engine of n clients with their weights, its strategy and the
\* request of one admitted call; fnOut is the call in progress: the calls
\* runModel has served, the results in their order of arrival on the results
\* channel, the aggregate and what Infer returned.

\* inferHybrid lines 264-268: the prompt of the refinement call
hybridRefinementPrompt(query, bestResponse) ==
    <<"Original query: ", query, "Aggregated response from multiple models: ", bestResponse>>

\* the number of goroutines of the parallel phase
FanCount(n, strat) ==
    IF strat = "hybrid" THEN (IF n - 1 < 1 THEN 1 ELSE n - 1) ELSE n

\* fault: the results channel is read only until the first valid result
FirstValidReturned(allResults, count) ==
    \E i \in 1..Len(allResults) : IsValid(allResults[i])

\* wg.Wait(); close(results): the range over results ends once every goroutine
\* has sent its result
AllReturned(allResults, count) == Len(allResults) = count

\* fault: a failed refinement fails the call
FanRefineStrict(bestResponse, failed, text) ==
    IF failed THEN [err |-> TRUE, response |-> EmptyText]
    ELSE [err |-> FALSE, response |-> text]

\* inferHybrid lines 270-275: what Infer returns after the refinement call
FanRefineResult(bestResponse, failed, text) ==
    IF failed THEN [err |-> FALSE, response |-> bestResponse]
    ELSE [err |-> FALSE, response |-> text]

FanInit ==
    /\ useSemanticCache = FALSE
    /\ strategy \in {"parallel", "hybrid"}
    /\ aggregationFn \in {"weighted", "longest"}
    /\ redis = EmptyStore
    /\ st = [w \in Workers |-> Idle]
    /\ nextId = 1
    /\ up = TRUE
    /\ \E n \in 2..MaxStages :
       \E weight \in [1..n -> Range(Weights)], req \in {r \in Requests : r.Query # <<>>} :
          fnArgs = [n |-> n, weight |-> weight, req |-> req]
    /\ fnOut = [pc |-> "parallel", calls |-> <<>>, allResults |-> <<>>,
                bestResponse |-> EmptyText, ret |-> [pending |-> TRUE]]

\* one goroutine of the parallel phase: runModel on clients[i - 1] with the
\* request's prompt, then the send of its result
FanRun(i) ==
    /\ fnOut.pc = "parallel"
    /\ i \in 1..FanCount(fnArgs.n, strategy)
    /\ \A k \in 1..Len(fnOut.calls) : fnOut.calls[k].model # i
    /\ \E failed \in BOOLEAN, t \in 1..Len(ModelOutput) :
          fnOut' = [fnOut EXCEPT
                      !.calls = Append(@, [model |-> i, prompt |-> buildPrompt(fnArgs.req),
                                           phase |-> "parallel", failed |-> failed]),
                      !.allResults = Append(@, [modelName |-> i,
                                                response |-> IF failed THEN EmptyText ELSE <<t>>,
                                                weight |-> fnArgs.weight[i],
                                                err |-> failed])]
    /\ UNCHANGED <<Config, redis, st, nextId, up, fnArgs>>

\* the results are collected and aggregated
FanAggregate ==
    /\ fnOut.pc = "parallel"
    /\ AllReturned(fnOut.allResults, FanCount(fnArgs.n, strategy))
    /\ LET agg == aggregateResults(fnOut.allResults, aggregationFn)
       IN  fnOut' =
             IF agg.err
             THEN [fnOut EXCEPT !.pc = "done", !.ret = [err |-> TRUE, response |-> EmptyText]]
             ELSE IF strategy = "hybrid" /\ fnArgs.n > 1
             THEN [fnOut EXCEPT !.pc = "refine", !.bestResponse = agg.response]
             ELSE [fnOut EXCEPT !.pc = "done", !.bestResponse = agg.response,
                                !.ret = [err |-> FALSE, response |-> agg.response]]
    /\ UNCHANGED <<Config, redis, st, nextId, up, fnArgs>>

\* inferHybrid, phase 2: runModel on the last client with the refinement prompt
FanRefine ==
    /\ fnOut.pc = "refine"
    /\ \E failed \in BOOLEAN, t \in 1..Len(ModelOutput) :
          fnOut' = [fnOut EXCEPT
                      !.pc = "done",
                      !.calls = Append(@, [model |-> fnArgs.n,
                                           prompt |-> hybridRefinementPrompt(fnArgs.req.Query,
                                                                             fnOut.bestResponse),
                                           phase |-> "refine", failed |-> failed]),
                      !.ret = FanRefineResult(fnOut.bestResponse, failed, <<t>>)]
    /\ UNCHANGED <<Config, redis, st, nextId, up, fnArgs>>

FanNext == (\E i \in 1..MaxStages : FanRun(i)) \/ FanAggregate \/ FanRefine

SpecFan == FanInit /\ [][FanNext]_vars

(************* the goroutines of inferParallel and inferHybrid *************)
\* fnArgs is the number of clients of the engine; fnOut is one call of
\* inferParallel or inferHybrid after the go statements: where each goroutine
\* of the parallel phase stands (in its call of runModel, at its send, or
\* finished), the buffer of the results channel and whether it is closed, the
\* results the caller has received, and where the caller stands.

\* fault: the closing goroutine closes the channel after the first wg.Done()
WaitAfterFirst(g) == \E i \in DOMAIN g : g[i] = "done"

\* wg.Wait() returns: every goroutine has run its deferred wg.Done()
WaitReturns(g) == \A i \in DOMAIN g : g[i] = "done"

GoInit ==
    /\ useSemanticCache = FALSE
    /\ strategy \in {"parallel", "hybrid"}
    /\ aggregationFn = "weighted"
    /\ redis = EmptyStore
    /\ st = [w \in Workers |-> Idle]
    /\ nextId = 1
    /\ up = TRUE
    /\ fnArgs \in 1..MaxStages
    /\ fnOut = [g |-> [i \in 1..FanCount(fnArgs, strategy) |-> "running"],
                results |-> <<>>, closed |-> FALSE, allResults |-> <<>>, pc |-> "collect"]

\* the call of runModel of goroutine i returns, with a text or with an error
GoRunModel(i) ==
    /\ i \in DOMAIN fnOut.g
    /\ fnOut.g[i] = "running"
    /\ \E failed \in BOOLEAN :
          fnOut' = [fnOut EXCEPT !.g[i] = IF failed THEN "failed" ELSE "answered"]
    /\ UNCHANGED <<Config, redis, st, nextId, up, fnArgs>>

\* results <- inferenceResult{...} of goroutine i, then its deferred
\* wg.Done(): the send needs room in the buffer of
\* make(chan inferenceResult, count) and panics on a closed channel
GoSend(i) ==
    /\ i \in DOMAIN fnOut.g
    /\ fnOut.g[i] \in {"failed", "answered"}
    /\ \/ /\ fnOut.closed
          /\ fnOut' = [fnOut EXCEPT !.g[i] = "panicked"]
       \/ /\ ~fnOut.closed
          /\ Len(fnOut.results) < FanCount(fnArgs, strategy)
          /\ fnOut' = [fnOut EXCEPT
                         !.g[i] = "done",
                         !.results = Append(@, [modelName |-> i,
                                                response |-> IF fnOut.g[i] = "failed"
                                                             THEN EmptyText ELSE <<1>>,
                                                weight |-> Weights[1],
                                                err |-> fnOut.g[i] = "failed"])]
    /\ UNCHANGED <<Config, redis, st, nextId, up, fnArgs>>

\* go func() { wg.Wait(); close(results) }()
GoClose ==
    /\ ~fnOut.closed
    /\ WaitReturns(fnOut.g)
    /\ fnOut' = [fnOut EXCEPT !.closed = TRUE]
    /\ UNCHANGED <<Config, redis, st, nextId, up, fnArgs>>

\* for result := range results: the caller receives one result
GoCollect ==
    /\ fnOut.pc = "collect"
    /\ fnOut.results # <<>>
    /\ fnOut' = [fnOut EXCEPT !.results = Tail(@),
                              !.allResults = Append(@, Head(fnOut.results))]
    /\ UNCHANGED <<Config, redis, st, nextId, up, fnArgs>>

\* the range ends on the closed and drained channel; the caller aggregates
\* and returns, or goes on to the refinement call of inferHybrid
GoRangeEnds ==
    /\ fnOut.pc = "collect"
    /\ fnOut.results = <<>>
    /\ fnOut.closed
    /\ fnOut' = [fnOut EXCEPT !.pc =
                    IF ~aggregateResults(fnOut.allResults, aggregationFn).err
                       /\ strategy = "hybrid" /\ fnArgs > 1
                    THEN "refine" ELSE "returned"]
    /\ UNCHANGED <<Config, redis, st, nextId, up, fnArgs>>

\* the refinement call of inferHybrid returns, and inferHybrid with it
GoRefine ==
    /\ fnOut.pc = "refine"
    /\ fnOut' = [fnOut EXCEPT !.pc = "returned"]
    /\ UNCHANGED <<Config, redis, st, nextId, up, fnArgs>>

GoNext ==
    \/ \E i \in 1..MaxStages : GoRunModel(i) \/ GoSend(i)
    \/ GoClose
    \/ GoCollect
    \/ GoRangeEnds
    \/ GoRefine

\* every adapter call returns, and the Go scheduler lets every goroutine that
\* can take a step take it
SpecGo ==
    /\ GoInit /\ [][GoNext]_vars
    /\ \A i \in 1..MaxStages : WF_vars(GoRunModel(i)) /\ WF_vars(GoSend(i))
    /\ WF_vars(GoClose) /\ WF_vars(GoCollect) /\ WF_vars(GoRangeEnds) /\ WF_vars(GoRefine)

(************************ SessionStore.AddMessage **************************)
\* fnOut holds the value stored under the session's key, with the session as
\* it was at the start, the (message, tokens) pairs of the calls that returned
\* success in the order of their SaveSession, and the number of calls made;
\* fnArgs gives each caller's call of AddMessage: the session it read, its
\* message and its tokens.  Messages are numbered.

\* Keep last 20 messages for context
maxContextWindow == 20

\* session.Messages[len(session.Messages)-maxContextWindow:] when longer
Trimmed(messages) ==
    IF Len(messages) > maxContextWindow
    THEN SubSeq(messages, Len(messages) - maxContextWindow + 1, Len(messages))
    ELSE messages

\* a session that n successive calls of AddMessage, of one token each, have
\* filled
SessionAfter(n) ==
    [Messages |-> Trimmed([i \in 1..n |-> i]), MessageCount |-> n, TotalTokens |-> n]

NoAdd == [pc |-> "none", session |-> SessionAfter(0), message |-> 0, tokens |-> 0]

SessionInit ==
    /\ useSemanticCache = FALSE
    /\ strategy = "single"
    /\ aggregationFn = "weighted"
    /\ redis = EmptyStore
    /\ st = [w \in Workers |-> Idle]
    /\ nextId = 1
    /\ up = TRUE
    /\ fnArgs = [w \in Workers |-> NoAdd]
    /\ \E n \in {0, maxContextWindow - 1, maxContextWindow + 1} :
          fnOut = [session |-> SessionAfter(n), first |-> SessionAfter(n),
                   added |-> <<>>, calls |-> 0]

\* AddMessage lines 90-93: GetSession reads and decodes the stored session,
\* or fails
AddMessageGet(w) ==
    /\ fnArgs[w].pc = "none"
    /\ fnOut.calls < MaxOps
    /\ \E tokens \in {1, 2}, failed \in BOOLEAN :
          fnArgs' = [fnArgs EXCEPT ![w] =
                        [pc |-> IF failed THEN "failed" ELSE "read",
                         session |-> fnOut.session,
                         message |-> fnOut.first.MessageCount + fnOut.calls + 1,
                         tokens |-> tokens]]
    /\ fnOut' = [fnOut EXCEPT !.calls = @ + 1]
    /\ UNCHANGED <<Config, redis, st, nextId, up>>

\* AddMessage lines 95-112: the message is appended to the session that was
\* read, the counters are raised, the window is trimmed, and SaveSession
\* stores the result, or fails
AddMessageSave(w) ==
    /\ fnArgs[w].pc = "read"
    /\ LET session == fnArgs[w].session
           saved == [Messages |-> Trimmed(Append(session.Messages, fnArgs[w].message)),
                     MessageCount |-> session.MessageCount + 1,
                     TotalTokens |-> session.TotalTokens + fnArgs[w].tokens]
       IN  \E failed \in BOOLEAN :
              /\ fnArgs' = [fnArgs EXCEPT ![w].pc = IF failed THEN "failed" ELSE "saved"]
              /\ fnOut' = IF failed THEN fnOut
                          ELSE [fnOut EXCEPT !.session = saved,
                                             !.added = Append(@, <<fnArgs[w].message,
                                                                   fnArgs[w].tokens>>)]
    /\ UNCHANGED <<Config, redis, st, nextId, up>>

\* the caller has the result of its call and may call again
AddMessageReturn(w) ==
    /\ fnArgs[w].pc \in {"failed", "saved"}
    /\ fnArgs' = [fnArgs EXCEPT ![w] = NoAdd]
    /\ UNCHANGED <<Config, redis, st, nextId, up, fnOut>>

SessionNext == \E w \in Workers : AddMessageGet(w) \/ AddMessageSave(w) \/ AddMessageReturn(w)

SpecSession == SessionInit /\ [][SessionNext]_vars

(******************************* StateStore ********************************)
\* fnOut is the key oauth_state:s of one state value s: whether SaveState has
\* been called for it, whether Redis holds the key, whether the clock has
\* passed its ExpiresAt, and how many calls of ValidateState returned true
\* for s; fnArgs gives each callback's call of ValidateState, for s or for a
\* value never saved.
NoValidation == [pc |-> "none", state |-> "none", expired |-> FALSE, result |-> "none"]

StateInit ==
    /\ useSemanticCache = FALSE
    /\ strategy = "single"
    /\ aggregationFn = "weighted"
    /\ redis = EmptyStore
    /\ st = [w \in Workers |-> Idle]
    /\ nextId = 1
    /\ up = TRUE
    /\ fnArgs = [w \in Workers |-> NoValidation]
    /\ fnOut = [saved |-> FALSE, present |-> FALSE, expired |-> FALSE,
                accepted |-> 0, calls |-> 0]

\* SaveState: SET oauth_state:s with the TTL, or the error of the SET
SaveState ==
    /\ ~fnOut.saved
    /\ \E failed \in BOOLEAN :
          fnOut' = [fnOut EXCEPT !.saved = TRUE, !.present = ~failed]
    /\ UNCHANGED <<Config, redis, st, nextId, up, fnArgs>>

\* ValidateState lines 48-63: the GET, the decoding and the comparison of the
\* clock with ExpiresAt
ValidateGet(w) ==
    /\ fnArgs[w].pc = "none"
    /\ fnOut.calls < MaxOps
    /\ \E state \in {"s", "unknown"}, failed \in BOOLEAN :
          fnArgs' = [fnArgs EXCEPT ![w] =
                        IF failed
                        THEN [NoValidation EXCEPT !.pc = "returned", !.state = state,
                                                  !.result = "err"]
                        ELSE IF state = "unknown" \/ ~fnOut.present
                        THEN [NoValidation EXCEPT !.pc = "returned", !.state = state,
                                                  !.result = "false"]
                        ELSE [NoValidation EXCEPT !.pc = "read", !.state = state,
                                                  !.expired = fnOut.expired]]
    /\ fnOut' = [fnOut EXCEPT !.calls = @ + 1]
    /\ UNCHANGED <<Config, redis, st, nextId, up>>

\* ValidateState lines 64-69: s.client.Del(ctx, key), its error dropped, and
\* the return of false for an expired state and of true otherwise
ValidateDel(w) ==
    /\ fnArgs[w].pc = "read"
    /\ fnArgs' = [fnArgs EXCEPT ![w].pc = "returned",
                                ![w].result = IF fnArgs[w].expired THEN "false" ELSE "true"]
    /\ \E failed \in BOOLEAN :
          fnOut' = [fnOut EXCEPT !.present = IF failed THEN @ ELSE FALSE,
                                 !.accepted = IF fnArgs[w].expired THEN @ ELSE @ + 1]
    /\ UNCHANGED <<Config, redis, st, nextId, up>>

\* Callback has the result and another callback may arrive
ValidateReturn(w) ==
    /\ fnArgs[w].pc = "returned"
    /\ fnArgs' = [fnArgs EXCEPT ![w] = NoValidation]
    /\ UNCHANGED <<Config, redis, st, nextId, up, fnOut>>

\* the clock passes ExpiresAt; Redis evicts the key when its TTL, which is
\* counted from the later SET, has elapsed
StateExpire ==
    /\ fnOut.saved
    /\ \/ ~fnOut.expired /\ fnOut' = [fnOut EXCEPT !.expired = TRUE]
       \/ fnOut.expired /\ fnOut.present /\ fnOut' = [fnOut EXCEPT !.present = FALSE]
    /\ UNCHANGED <<Config, redis, st, nextId, up, fnArgs>>

StateNext ==
    \/ SaveState
    \/ \E w \in Workers : ValidateGet(w) \/ ValidateDel(w) \/ ValidateReturn(w)
    \/ StateExpire

SpecState == StateInit /\ [][StateNext]_vars

(*************************** the engine's gate *****************************)
\* fnOut is the engine's workerPool channel (its buffer and whether Close has
\* closed it) with the outcome of the last call of Close; fnArgs gives each
\* caller's pending call of Infer or InferStreaming.  The read lock an admitted
\* call takes never blocks, no operation of the engine taking the write lock.
NoCall == [kind |-> "none", pc |-> "none", cancelled |-> FALSE, entryCancelled |-> FALSE,
           admitted |-> FALSE, invoked |-> 0, err |-> "none"]

\* fault: a send is accepted by a full buffer
CanSendWhenFull(pool) == Len(pool.buf) <= MaxConcurrent

\* a send on the channel make(chan struct{}, cfg.MaxConcurrent) can proceed
CanSend(pool) == Len(pool.buf) < MaxConcurrent

GateInit ==
    /\ useSemanticCache = FALSE
    /\ \E c \in EngineConfigs : strategy = c[1] /\ aggregationFn = c[2]
    /\ redis = EmptyStore
    /\ st = [w \in Workers |-> Idle]
    /\ nextId = 1
    /\ up = TRUE
    /\ fnArgs = [w \in Workers |-> NoCall]
    /\ fnOut = [buf |-> <<>>, closed |-> FALSE, closeResult |-> "none"]

\* a caller calls Infer or InferStreaming with a live or a cancelled context
GateCall(w) ==
    /\ fnArgs[w].pc = "none"
    /\ \E kind \in {"Infer", "InferStreaming"}, c \in BOOLEAN :
          fnArgs' = [fnArgs EXCEPT ![w] = [NoCall EXCEPT !.kind = kind, !.pc = "gate",
                                              !.cancelled = c, !.entryCancelled = c]]
    /\ UNCHANGED <<Config, redis, st, nextId, up, fnOut>>

\* the caller's context is cancelled while the call is in progress
GateCancel(w) ==
    /\ fnArgs[w].pc \in {"gate", "running"}
    /\ ~fnArgs[w].cancelled
    /\ fnArgs' = [fnArgs EXCEPT ![w].cancelled = TRUE]
    /\ UNCHANGED <<Config, redis, st, nextId, up, fnOut>>

\* select, case e.workerPool <- struct{}{}: the call takes a slot
GateAdmit(w) ==
    /\ fnArgs[w].pc = "gate"
    /\ ~fnOut.closed
    /\ CanSend(fnOut)
    /\ fnOut' = [fnOut EXCEPT !.buf = Append(@, "slot")]
    /\ fnArgs' = [fnArgs EXCEPT ![w].pc = "running", ![w].admitted = TRUE]
    /\ UNCHANGED <<Config, redis, st, nextId, up>>

\* select, case <-ctx.Done(): the call returns ctx.Err()
GateRefuse(w) ==
    /\ fnArgs[w].pc = "gate"
    /\ fnArgs[w].cancelled
    /\ fnArgs' = [fnArgs EXCEPT ![w].pc = "returned", ![w].err = "ctx"]
    /\ UNCHANGED <<Config, redis, st, nextId, up, fnOut>>

\* select, send on the channel Close has closed: the call panics
GatePanic(w) ==
    /\ fnArgs[w].pc = "gate"
    /\ fnOut.closed
    /\ fnArgs' = [fnArgs EXCEPT ![w].pc = "returned", ![w].err = "panic"]
    /\ UNCHANGED <<Config, redis, st, nextId, up, fnOut>>

\* the number of adapters the admitted call invokes at least: every strategy
\* of Infer and the single call of InferStreaming start with one model call
\* (all parallel clients at once under parallel and hybrid)
FirstInvocations(kind) ==
    IF kind = "InferStreaming" THEN 1
    ELSE IF strategy = "parallel" THEN NumClients
    ELSE IF strategy = "hybrid" THEN parallelCount
    ELSE 1

\* fault: the slot is kept when the call returns
ReleaseNothing(buf) == buf

\* defer func() { <-e.workerPool }(): one element leaves the buffer (a receive
\* on a closed channel still yields what is buffered)
Release(buf) == IF buf = <<>> THEN buf ELSE Tail(buf)

\* the body of an admitted call runs and the call returns; the deferred
\* receive gives the slot back
GateReturn(w) ==
    /\ fnArgs[w].pc = "running"
    /\ \E failed \in BOOLEAN :
          fnArgs' = [fnArgs EXCEPT ![w].pc = "returned", ![w].admitted = FALSE,
                                   ![w].invoked = FirstInvocations(fnArgs[w].kind),
                                   ![w].err = IF failed \/ fnArgs[w].cancelled
                                              THEN "model" ELSE "nil"]
    /\ fnOut' = [fnOut EXCEPT !.buf = Release(@)]
    /\ UNCHANGED <<Config, redis, st, nextId, up>>

\* the caller has its result and may call again
GateForget(w) ==
    /\ fnArgs[w].pc = "returned"
    /\ fnArgs' = [fnArgs EXCEPT ![w] = NoCall]
    /\ UNCHANGED <<Config, redis, st, nextId, up, fnOut>>

\* Close: close(e.workerPool), taking no lock; closing a channel that is
\* already closed panics, otherwise Close returns nil
GateClose ==
    /\ fnOut' = [fnOut EXCEPT !.closed = TRUE,
                              !.closeResult = IF fnOut.closed THEN "panic" ELSE "nil"]
    /\ UNCHANGED <<Config, redis, st, nextId, up, fnArgs>>

GateNext ==
    \/ \E w \in Workers : \/ GateCall(w)
                          \/ GateCancel(w)
                          \/ GateAdmit(w)
                          \/ GateRefuse(w)
                          \/ GatePanic(w)
                          \/ GateReturn(w)
                          \/ GateForget(w)
    \/ GateClose

SpecGate == GateInit /\ [][GateNext]_vars

(***************************** properties **********************************)
\* the steps of HandleInference a request logged, cancellations left out
Events(l) == SelectSeq(l.trace, LAMBDA ev : ev # "Cancel")

IsPrefix(s, t) == Len(s) <= Len(t) /\ SubSeq(t, 1, Len(s)) = s

\* the steps of a request that misses every lookup and whose inference succeeds
Pipeline(semantic) ==
    (IF semantic THEN <<"GetSimilar">> ELSE <<>>)
        \o <<"Get", "Route", "Infer", "InferRet", "WriteBack">>

\* the context was cancelled after Infer was called and before it returned
CancelledDuringInference(l) ==
    \E i, j \in 1..Len(l.trace) :
        /\ i < j
        /\ l.trace[i] = "Infer"
        /\ l.trace[j] = "Cancel"
        /\ \A k \in 1..j : l.trace[k] # "InferRet"

\* the request was answered from a cache without any model call
AnsweredFromCache(l) ==
    /\ l.pc = "done"
    /\ l.status = 200
    /\ l.body.CacheHit
    /\ l.nCalls = 0
    /\ Range(Events(l)) \cap {"Route", "Infer", "InferRet", "WriteBack"} = {}

\* the similarity of the entry stored under k to the query of l
SimilarityTo(l, k) == cosineSimilarity(Embedding(l.Query), redis[k].Embedding)

\* C1: the steps of a request run in the order semantic lookup (only when the
\* semantic cache is enabled), exact lookup, routing, inference, write-back,
\* each at most once and none skipped before a later one; models are called
\* only once inference has started, and inference has returned (the gate slot
\* given back) before the write-back.
C1_PipelineOrder ==
    \A w \in Workers :
        LET l == st[w]
            ev == Events(l)
        IN  /\ IsPrefix(ev, Pipeline(useSemanticCache))
            /\ (l.nCalls > 0 => "Infer" \in Range(ev))
            /\ ("InferRet" \in Range(ev) => ~l.admitted /\ l.pc \in {"writeback", "done"})
            /\ (l.admitted => ev = SubSeq(Pipeline(useSemanticCache), 1, Len(ev))
                              /\ ev[Len(ev)] = "Infer")
            /\ (l.issued # {} => ev = Pipeline(useSemanticCache))

C1_Witness ==
    \E w \in Workers :
        /\ useSemanticCache
        /\ st[w].pc = "done"
        /\ Events(st[w]) = Pipeline(TRUE)

\* C2: a request whose inference succeeded issues its write-back to exactly
\* one tier, the semantic tier when the semantic cache is enabled and the
\* exact tier otherwise; what is stored is stored in that tier only, and the
\* other tier never holds an entry.
C2_ExactlyOneTier ==
    /\ \A w \in Workers :
          LET l == st[w]
          IN  /\ (l.pc = "done" /\ l.ret = "ok" =>
                     /\ l.issued = IF useSemanticCache THEN {"semantic"} ELSE {"exact"}
                     /\ l.stored \subseteq l.issued)
              /\ (l.ret # "ok" => l.issued = {} /\ l.stored = {})
              /\ (l.stored = {"semantic"} =>
                     /\ (<<queryPrefix>> \o l.cacheKey) \in DOMAIN redis
                     /\ redis[<<queryPrefix>> \o l.cacheKey].Response = l.body
                     /\ l.cacheKey \notin DOMAIN redis)
              /\ (l.stored = {"exact"} =>
                     /\ l.cacheKey \in DOMAIN redis
                     /\ redis[l.cacheKey] = l.body
                     /\ (<<queryPrefix>> \o l.cacheKey) \notin DOMAIN redis)
    /\ (useSemanticCache => DOMAIN redis = SemanticKeys(redis))
    /\ (~useSemanticCache => SemanticKeys(redis) = {})

C2_Witness ==
    \E w \in Workers :
        /\ st[w].pc = "done"
        /\ st[w].ret = "ok"
        /\ st[w].stored = {"semantic"}

C4_HitShortCircuits ==
    \A w \in Workers :
        LET l == st[w]
        IN  (l.status = 200 /\ l.body.CacheHit) =>
               /\ AnsweredFromCache(l)
               /\ l.ret = "none"
               /\ l.issued = {}
               /\ l.stored = {}
               /\ ~l.admitted
               /\ \E k \in DOMAIN redis :
                     LET cached == IF Head(k) = queryPrefix THEN redis[k].Response
                                   ELSE redis[k]
                     IN  /\ cached.Response = l.body.Response
                         /\ cached.ModelUsed = l.body.ModelUsed

C4_Witness ==
    \E w \in Workers :
        /\ ~useSemanticCache
        /\ st[w].status = 200
        /\ st[w].body.CacheHit
        /\ Events(st[w]) = <<"Get">>

\* C5: when the chosen inference path returns an error the request ends with
\* status 500 and a body of exactly the fields error, model and routing (the
\* model routed to and the routing reason), carries no inference output, and
\* no cache write is issued.
C5_InferenceErrorIs500 ==
    \A w \in Workers :
        LET l == st[w]
        IN  l.ret = "err" =>
               /\ l.pc = "done"
               /\ l.status = 500
               /\ DOMAIN l.body = {"error", "model", "routing"}
               /\ l.body.model = IF l.decision.UseLLM THEN "cloud-llm" ELSE "edge-slm"
               /\ l.body.routing = l.decision.Reason
               /\ l.response = EmptyText
               /\ l.issued = {}
               /\ l.stored = {}
               /\ "WriteBack" \notin Range(l.trace)

C5_Witness ==
    \E w \in Workers :
        /\ st[w].ret = "err"
        /\ ~st[w].cancelled
        /\ st[w].nCalls > 0
        /\ st[w].status = 500

\* C6: no model call is started on a context that is already cancelled.
C6_NoCallAfterCancel ==
    \A w \in Workers : st[w].nLate = 0

\* C7: a request whose context is cancelled while its inference runs ends
\* without a 200 response and without a cache write-back.
C7_CancelledYieldsNothing ==
    \A w \in Workers :
        (st[w].pc = "done" /\ CancelledDuringInference(st[w])) =>
            /\ st[w].status # 200
            /\ st[w].issued = {}

\* C8: when the write-back fails the request still ends with status 200 and
\* the freshly inferred response, cache_hit = false.
C8_WriteBackFailureIgnored ==
    \A w \in Workers :
        LET l == st[w]
        IN  (l.pc = "done" /\ "WriteBack" \in Range(l.trace) /\ l.stored = {}) =>
               /\ l.ret = "ok"
               /\ l.status = 200
               /\ DOMAIN l.body = {"Response", "ModelUsed", "RoutingReason", "CacheHit"}
               /\ l.body.Response = l.response
               /\ l.body.ModelUsed = l.modelUsed
               /\ ~l.body.CacheHit

C8_Witness ==
    \E w \in Workers :
        /\ st[w].pc = "done"
        /\ st[w].issued # {}
        /\ st[w].stored = {}
        /\ ~st[w].cancelled
        /\ st[w].status = 200

\* C9: a failed cache read never fails the request: a request ends with 400
\* only for an empty query and with 500 only when inference returned an
\* error; a request whose semantic lookup failed went on to the exact lookup,
\* and one whose exact lookup failed went on to routing and inference.
C9_ReadErrorsAreMisses ==
    \A w \in Workers :
        LET l == st[w]
            ev == Range(Events(l))
        IN  /\ l.status \in {0, 200, 400, 500}
            /\ (l.status = 400 => l.Query = <<>>)
            /\ (l.status = 500 => l.ret = "err")
            /\ (l.pc \notin {"idle", "semantic"}
                   /\ (l.entrySeen = "unreadable" \/ CancelledBefore(l, "GetSimilar"))
                   => l.pc = "exact" \/ "Get" \in ev)
            /\ (l.pc \notin {"idle", "semantic", "exact"}
                   /\ (l.entrySeen = "unreadable" \/ CancelledBefore(l, "Get"))
                   => "Route" \in ev)
            /\ (l.pc = "done"
                   /\ (l.entrySeen = "unreadable" \/ CancelledBefore(l, "Get"))
                   => {"Route", "Infer", "InferRet"} \subseteq ev)

C9_Witness ==
    \E w \in Workers :
        /\ useSemanticCache
        /\ st[w].entrySeen = "unreadable"
        /\ st[w].pc = "done"
        /\ st[w].status = 200
        /\ ~st[w].body.CacheHit
        /\ st[w].stored # {}

\* C10: two requests get the same cache key exactly when they have the same
\* query and the same context.
C10_KeyIdentifiesRequest ==
    fnOut # <<>> => ((fnOut[1] = fnOut[2]) <=> (fnArgs[1] = fnArgs[2]))

\* the complexity of the metrics exceeds, or is at most, the configured threshold
ComplexityOver(m) ==
    ~m.Complexity.nan /\ m.Complexity.num > ComplexityThresholdE5 * m.Complexity.den

ComplexityWithin(m) ==
    ~m.Complexity.nan /\ m.Complexity.num <= ComplexityThresholdE5 * m.Complexity.den

LLMReasons ==
    {"High complexity query requires LLM reasoning",
     "Long query requires cloud LLM processing",
     "Context-aware query routed to LLM"}

\* C11: metrics whose complexity is strictly above the threshold are routed to
\* the LLM with the high-complexity reason and confidence 0.90, whatever their
\* token count and context flag.
C11_HighComplexityToLLM ==
    (fnOut # <<>> /\ ComplexityOver(fnArgs[1])) =>
        /\ fnOut[1].UseLLM
        /\ fnOut[1].Reason = "High complexity query requires LLM reasoning"
        /\ fnOut[1].Confidence = 90

C11_Witness ==
    /\ fnOut # <<>>
    /\ ComplexityOver(fnArgs[1])
    /\ fnArgs[1].TokenCount > 100
    /\ fnArgs[1].HasContext
    /\ fnOut[1].Confidence = 90

\* C12: metrics with complexity at most the threshold, at most 100 tokens and
\* no context are routed to the SLM with the simple-query reason; this includes
\* exactly 100 tokens and a complexity exactly equal to the threshold.
C12_SimpleToSLM ==
    (fnOut # <<>> /\ ComplexityWithin(fnArgs[1])
        /\ fnArgs[1].TokenCount <= 100 /\ ~fnArgs[1].HasContext) =>
        /\ ~fnOut[1].UseLLM
        /\ fnOut[1].Reason = "Simple query suitable for edge SLM"

C12_Witness ==
    /\ fnOut # <<>>
    /\ fnArgs[1].Complexity = [nan |-> FALSE, num |-> 65000, den |-> 1]
    /\ fnArgs[1].TokenCount = 100
    /\ ~fnArgs[1].HasContext
    /\ ~fnOut[1].UseLLM

\* C13: the rules are tried in order and the first match wins: with complexity
\* at most the threshold, more than 100 tokens give the long-query reason
\* (confidence 0.85) even with context, and at most 100 tokens with context
\* give the context reason (confidence 0.80); use_llm is true exactly when the
\* reason is one of the three LLM reasons.
C13_FirstMatchWins ==
    fnOut # <<>> =>
        LET m == fnArgs[1]
            d == fnOut[1]
        IN  /\ (ComplexityWithin(m) /\ m.TokenCount > 100 =>
                   /\ d.Reason = "Long query requires cloud LLM processing"
                   /\ d.Confidence = 85)
            /\ (ComplexityWithin(m) /\ m.TokenCount <= 100 /\ m.HasContext =>
                   /\ d.Reason = "Context-aware query routed to LLM"
                   /\ d.Confidence = 80)
            /\ (d.UseLLM <=> d.Reason \in LLMReasons)

C13_Witness ==
    /\ fnOut # <<>>
    /\ ComplexityWithin(fnArgs[1])
    /\ fnArgs[1].TokenCount > 100
    /\ fnArgs[1].HasContext
    /\ fnOut[1].Reason = "Long query requires cloud LLM processing"

\* the value a key-to-value map with expiry holds for k after the calls of log:
\* that of the last Set of k that succeeded, unless a Delete of k that
\* succeeded or the expiry of k came after it
RECURSIVE MapValue(_, _)
MapValue(log, k) ==
    IF log = <<>> THEN NoBody
    ELSE LET e == log[Len(log)]
             before == SubSeq(log, 1, Len(log) - 1)
         IN  IF e.key # k \/ e.err \/ e.op = "Get" THEN MapValue(before, k)
             ELSE IF e.op = "Set" THEN e.value
             ELSE NoBody

\* C14: every Get(k) that returns without error returns what a key-to-value
\* map with expiry holds for k: the value of the last successful Set(k, v) not
\* followed by a Delete(k) or by the expiry of k, absent (nil, nil) otherwise;
\* a Get that fails returns no value.
C14_ExactCacheIsMap ==
    \A i \in 1..Len(fnArgs) :
        fnArgs[i].op = "Get" =>
            IF fnArgs[i].err THEN fnArgs[i].value = NoBody
            ELSE fnArgs[i].value = MapValue(SubSeq(fnArgs, 1, i - 1), fnArgs[i].key)

C14_Witness ==
    /\ Len(fnArgs) = 4
    /\ fnArgs[1].op = "Set" /\ fnArgs[1].key = "k1" /\ ~fnArgs[1].err
    /\ fnArgs[2].op = "Set" /\ fnArgs[2].key = "k1" /\ ~fnArgs[2].err
    /\ fnArgs[2].value # fnArgs[1].value
    /\ fnArgs[3].op = "Set" /\ fnArgs[3].key = "k2" /\ ~fnArgs[3].err
    /\ fnArgs[4].op = "Get" /\ fnArgs[4].key = "k1" /\ ~fnArgs[4].err
    /\ fnArgs[4].value = fnArgs[2].value
    /\ fnOut = <<[err |-> FALSE, response |-> fnArgs[2].value]>>

\* the positions of the results that carry no error and a non-empty text
Successful(results) ==
    {i \in 1..Len(results) : ~results[i].err /\ results[i].response # <<>>}

\* C15: when at least one result carries no error and a non-empty text, the
\* aggregate is, for every aggregation setting, the text of one of those
\* results: not an error, not empty, not the text of a failed result and not
\* a text that no single result carries.
C15_AggregateIsOneSuccess ==
    (fnOut # <<>> /\ Successful(fnArgs[1]) # {}) =>
        /\ ~fnOut[1].err
        /\ fnOut[1].response # <<>>
        /\ \E i \in Successful(fnArgs[1]) : fnArgs[1][i].response = fnOut[1].response

C15_Witness ==
    /\ fnOut # <<>>
    /\ aggregationFn = "voting"
    /\ Len(fnArgs[1]) = 3
    /\ fnArgs[1][1].err
    /\ Cardinality(Successful(fnArgs[1])) = 2
    /\ fnArgs[1][2].response # fnArgs[1][3].response
    /\ fnOut[1].response = fnArgs[1][3].response

\* C16: aggregation of the collected results succeeds exactly when at least
\* one result carries no error and a non-empty text, whatever the others did;
\* when none does, the error lists, in order, every result that carried an
\* error.
C16_PartialFailuresAbsorbed ==
    fnOut # <<>> =>
        LET results == fnArgs[1]
            failing == SelectSeq(results, LAMBDA r : r.err)
        IN  /\ (~fnOut[1].err <=> Successful(results) # {})
            /\ (fnOut[1].err =>
                   /\ fnOut[1].response = <<>>
                   /\ fnOut[1].errors = [i \in 1..Len(failing) |-> failing[i].modelName])

C16_Witness ==
    /\ fnOut # <<>>
    /\ Len(fnArgs[1]) = 3
    /\ fnArgs[1][1].err /\ fnArgs[1][3].err
    /\ 2 \in Successful(fnArgs[1])
    /\ ~fnOut[1].err
    /\ fnOut[1].response = fnArgs[1][2].response

\* C17: weighted aggregation returns the text of a successful result no
\* other successful result outweighs, in whatever order the results arrived.
C17_WeightedPicksGreatest ==
    (fnOut # <<>> /\ aggregationFn = "weighted" /\ Successful(fnArgs[1]) # {}) =>
        \E i \in Successful(fnArgs[1]) :
            /\ fnArgs[1][i].response = fnOut[1].response
            /\ \A j \in Successful(fnArgs[1]) : fnArgs[1][j].weight <= fnArgs[1][i].weight

C17_Witness ==
    /\ fnOut # <<>>
    /\ aggregationFn = "weighted"
    /\ Len(fnArgs[1]) = 3
    /\ fnArgs[1][1].weight = 15 /\ fnArgs[1][1].response = <<1>>
    /\ fnArgs[1][2].weight = 10 /\ fnArgs[1][2].err
    /\ fnArgs[1][3].weight = 20 /\ fnArgs[1][3].response = <<2>>
    /\ fnOut[1].response = <<2>>

\* C18: under the series strategy the adapters are called in index order,
\* the first with the request's prompt and each later one with a refinement
\* prompt made of the original query and the text the stage before returned;
\* a failure of the first stage fails Infer, a failure of a later stage ends
\* the chain and Infer returns the text of the stage before it, and when all
\* stages succeed Infer returns the text of the last.
C18_SeriesChain ==
    \A w \in Workers :
        st[w].pc # "idle" =>
            LET l == st[w]
                n == fnArgs[1]
                calls == fnOut
                last == Len(calls)
            IN  /\ last <= n
                /\ \A k \in 1..last :
                      /\ calls[k].model = k
                      /\ (k < last => ~calls[k].failed)
                      /\ calls[k].prompt =
                            IF k = 1
                            THEN (IF l.Context = <<>> THEN <<l.Query>>
                                  ELSE <<"Context: ", l.Context, "Question: ", l.Query>>)
                            ELSE <<"Original query: ", l.Query,
                                   "Previous response: ", calls[k - 1].text>>
                /\ (l.pc = "series" => l.ret = "none" /\ last < n)
                /\ (l.pc # "series" =>
                      /\ last >= 1
                      /\ (calls[last].failed /\ last = 1 => l.ret = "err")
                      /\ (calls[last].failed /\ last > 1 =>
                             l.ret = "ok" /\ l.response = calls[last - 1].text)
                      /\ (~calls[last].failed =>
                             last = n /\ l.ret = "ok" /\ l.response = calls[last].text))

C18_Witness ==
    /\ fnArgs = <<3>>
    /\ Len(fnOut) = 2
    /\ ~fnOut[1].failed
    /\ fnOut[2].failed
    /\ \E w \in Workers :
          /\ st[w].ret = "ok"
          /\ st[w].response = fnOut[1].text
          /\ ~st[w].cancelled

\* C19: at every moment the calls of Infer and InferStreaming that the gate
\* has admitted and that have not returned number at most max_concurrent.
C19_AdmittedAtMostMaxConcurrent ==
    Cardinality({w \in Workers : fnArgs[w].admitted}) <= MaxConcurrent

C19_Witness ==
    /\ Cardinality({w \in Workers : fnArgs[w].admitted}) = MaxConcurrent
    /\ \E w \in Workers : fnArgs[w].pc = "gate" /\ ~fnArgs[w].cancelled
    /\ \E w \in Workers : fnArgs[w].admitted /\ fnArgs[w].kind = "InferStreaming"
    /\ ~fnOut.closed

\* C20 (as stated): a call of Infer either is admitted or, its context being
\* cancelled before admission, returns the context's error; and a call whose
\* context was cancelled before it reached the gate never takes a slot and
\* invokes no adapter.
C20_CancelledNeverAdmitted ==
    \A w \in Workers :
        fnArgs[w].kind = "Infer" =>
            /\ (fnArgs[w].pc = "returned" /\ ~fnOut.closed =>
                   fnArgs[w].invoked > 0 \/ (fnArgs[w].err = "ctx" /\ fnArgs[w].cancelled))
            /\ (fnArgs[w].entryCancelled =>
                   ~fnArgs[w].admitted /\ fnArgs[w].invoked = 0)

\* C21 (as stated): Close takes effect only when no inference is in flight,
\* and no call of Infer that overlaps with or follows Close crashes.
C21_CloseExcludesInfer ==
    \A w \in Workers :
        fnArgs[w].kind = "Infer" =>
            /\ fnArgs[w].err # "panic"
            /\ (fnOut.closed /\ fnOut.closeResult = "nil" /\ fnArgs[w].admitted =>
                   fnArgs[w].pc # "running")

\* C22 (as stated): every call of Close after the first returns normally and
\* leaves the engine closed.
C22_CloseIdempotent ==
    fnOut.closeResult # "none" => fnOut.closed /\ fnOut.closeResult = "nil"

\* the similarity GetSimilar computes for the entry under key k of the call
SimOf(k) == cosineSimilarity(Embedding(fnArgs.query), fnArgs.store[k].Embedding)

\* the entries of the call that were fetched, carry an embedding and are
\* strictly more similar to the query than the threshold
SimCandidates ==
    {k \in DOMAIN fnArgs.store \ fnArgs.unreadable :
        /\ Len(fnArgs.store[k].Embedding) > 0
        /\ SimGreater(SimOf(k), fnArgs.threshold)}

\* C23: GetSimilar returns, of the entries it fetched, one with the highest
\* cosine similarity among those strictly above the threshold, and absent when
\* there is none; an entry without embedding and an entry whose similarity
\* equals the threshold are never returned.
C23_BestAboveThreshold ==
    "pending" \notin DOMAIN fnOut =>
        IF SimCandidates = {} THEN fnOut = NoMatch
        ELSE /\ fnOut.found
             /\ <<queryPrefix>> \o fnOut.CacheKey \in SimCandidates
             /\ LET k == <<queryPrefix>> \o fnOut.CacheKey
                IN  /\ fnOut.Response = fnArgs.store[k].Response
                    /\ fnOut.Similarity = SimOf(k)
                    /\ \A j \in SimCandidates : ~SimGreater(SimOf(j), SimOf(k))

C23_Witness ==
    /\ "pending" \notin DOMAIN fnOut
    /\ fnOut.found
    /\ fnArgs.unreadable = {}
    /\ fnArgs.keys[1] # <<queryPrefix>> \o fnOut.CacheKey
    /\ \E j \in SimCandidates : SimGreater(fnOut.Similarity, SimOf(j))
    /\ \E j \in DOMAIN fnArgs.store : Len(fnArgs.store[j].Embedding) = 0
    /\ \E j \in DOMAIN fnArgs.store :
          /\ Len(fnArgs.store[j].Embedding) > 0
          /\ ~SimGreater(SimOf(j), fnArgs.threshold)
          /\ ~SimGreater(fnArgs.threshold, SimOf(j))

\* C24 (as stated): every response of POST /inference, fresh or served from
\* a cache, names "cloud-llm" or "edge-slm" as the model used, whatever
\* inference and chat requests have written to the shared store.
C24_ModelUsedIsTier ==
    \A w \in Workers :
        st[w].status = 200 => st[w].body.ModelUsed \in {"cloud-llm", "edge-slm"}

\* C25 (as stated): for every query text the pipeline accepts, the score of
\* calculateComplexity is a number, and it lies between 0 and 1.
C25_ComplexityInUnitInterval ==
    "pending" \notin DOMAIN fnOut =>
        /\ ~fnOut.nan
        /\ 0 <= fnOut.num
        /\ fnOut.num <= 100000 * fnOut.den

\* C26: a request whose body does not bind (no JSON, or no query) is answered
\* with 400 and causes no cache lookup, no routing, no model call and no
\* cache write; no other request is answered with 400.
C26_BadRequestDoesNothing ==
    \A w \in Workers :
        LET l == st[w]
        IN  /\ (l.pc # "idle" /\ l.Query = <<>> =>
                   /\ l.pc = "done"
                   /\ l.status = 400
                   /\ l.trace = <<>>
                   /\ l.nCalls = 0
                   /\ ~l.admitted
                   /\ l.issued = {}
                   /\ l.stored = {})
            /\ (l.status = 400 => l.Query = <<>>)

C26_Witness ==
    /\ redis # EmptyStore
    /\ \E w \in Workers :
          /\ st[w].pc = "done"
          /\ st[w].status = 400
          /\ st[w].Query = <<>>

\* the calls of the parallel phase, in the order runModel served them
ParallelCalls == SelectSeq(fnOut.calls, LAMBDA c : c.phase = "parallel")

\* C27: in the parallel strategy and in the parallel phase of the hybrid
\* strategy every participating adapter is called at most once, with the
\* request's prompt; once aggregation has started every one of them has been
\* called exactly once and has delivered its result, whether the results
\* before it were successes or failures.
C27_AllSiblingsAwaited ==
    LET count == IF strategy = "hybrid" THEN fnArgs.n - 1 ELSE fnArgs.n
        prompt == IF fnArgs.req.Context = <<>> THEN <<fnArgs.req.Query>>
                  ELSE <<"Context: ", fnArgs.req.Context, "Question: ", fnArgs.req.Query>>
    IN  /\ \A k \in 1..Len(ParallelCalls) :
              /\ ParallelCalls[k].model \in 1..count
              /\ ParallelCalls[k].prompt = prompt
              /\ \A j \in 1..Len(ParallelCalls) :
                    ParallelCalls[j].model = ParallelCalls[k].model => j = k
        /\ Len(fnOut.allResults) = Len(ParallelCalls)
        /\ \A k \in 1..Len(ParallelCalls) :
              fnOut.allResults[k].modelName = ParallelCalls[k].model
        /\ (fnOut.pc # "parallel" =>
               \A i \in 1..count : \E k \in 1..Len(ParallelCalls) : ParallelCalls[k].model = i)

C27_Witness ==
    /\ strategy = "parallel"
    /\ fnArgs.n = 3
    /\ fnOut.pc = "done"
    /\ Len(fnOut.allResults) = 3
    /\ fnOut.allResults[1].err
    /\ ~fnOut.allResults[2].err
    /\ fnOut.allResults[3].err
    /\ ~fnOut.ret.err

\* the successful results of the call whose key (weight, or length of the
\* text) is greatest
TiedBest(key(_)) ==
    {i \in Successful(fnOut.allResults) :
        \A j \in Successful(fnOut.allResults) :
            key(fnOut.allResults[j]) <= key(fnOut.allResults[i])}

\* the text of the result in s that comes from the adapter configured first
FirstConfigured(s) ==
    LET i == CHOOSE a \in s : \A b \in s :
                 fnOut.allResults[a].modelName <= fnOut.allResults[b].modelName
    IN  fnOut.allResults[i].response

\* C28 (as stated): in weighted and in longest aggregation, among the
\* survivors tied for the greatest weight, respectively the greatest length,
\* the adapter that comes first in the configured model list wins, in
\* whatever order the adapters completed.
C28_TiesByConfiguredOrder ==
    (strategy = "parallel" /\ fnOut.pc = "done" /\ ~fnOut.ret.err) =>
        fnOut.ret.response =
            IF aggregationFn = "weighted"
            THEN FirstConfigured(TiedBest(LAMBDA r : r.weight))
            ELSE FirstConfigured(TiedBest(LAMBDA r : Len(TextChars(r.response))))

\* C29: under the hybrid strategy with n >= 2 adapters, adapters 1..n-1 are
\* those of the parallel phase; adapter n is called at most once, after the
\* parallel results have been aggregated, with the refinement prompt made of
\* the query and the aggregated text; Infer returns that call's text, or the
\* aggregated text if the call fails; when no parallel result is successful
\* Infer fails and adapter n is never called.
C29_HybridRefinesAggregate ==
    strategy = "hybrid" =>
        LET n == fnArgs.n
            refs == SelectSeq(fnOut.calls, LAMBDA c : c.model = n)
            agg == aggregateResults(fnOut.allResults, aggregationFn)
        IN  /\ \A k \in 1..Len(fnOut.calls) :
                  fnOut.calls[k].phase = "parallel" <=> fnOut.calls[k].model \in 1..(n - 1)
            /\ Len(refs) <= 1
            /\ (Len(refs) = 1 =>
                   /\ fnOut.calls[Len(fnOut.calls)].model = n
                   /\ Len(fnOut.allResults) = n - 1
                   /\ Successful(fnOut.allResults) # {}
                   /\ refs[1].prompt = <<"Original query: ", fnArgs.req.Query,
                                        "Aggregated response from multiple models: ",
                                        agg.response>>
                   /\ ~fnOut.ret.err
                   /\ (refs[1].failed => fnOut.ret.response = agg.response))
            /\ (fnOut.pc = "done" /\ Successful(fnOut.allResults) = {} =>
                   fnOut.ret.err /\ Len(refs) = 0)
            /\ (fnOut.pc = "done" /\ Successful(fnOut.allResults) # {} =>
                   /\ Len(refs) = 1
                   /\ ~fnOut.ret.err
                   /\ fnOut.ret.response \in {agg.response} \cup {<<t>> : t \in 1..Len(ModelOutput)})

C29_Witness ==
    /\ strategy = "hybrid"
    /\ fnArgs.n = 3
    /\ fnOut.pc = "done"
    /\ fnOut.allResults[1].modelName = 2
    /\ fnOut.allResults[1].err
    /\ fnOut.allResults[2].response = <<1>>
    /\ fnOut.calls[3].model = 3
    /\ fnOut.calls[3].failed
    /\ fnOut.bestResponse = <<1>>
    /\ fnOut.ret = [err |-> FALSE, response |-> <<1>>]

\* the set of lowercased whitespace-split tokens of a text
TokenSet(text) == Range(Fields(ToLower(text)))

\* C30 (as stated): the similarity voting uses is the Jaccard coefficient of
\* the token sets of the two responses (0 if either is empty); it is
\* symmetric and lies between 0 and 1, also for responses with repeated words.
C30_SimilarityIsJaccard ==
    "pending" \notin DOMAIN fnOut =>
        LET A == TokenSet(fnArgs[1])
            B == TokenSet(fnArgs[2])
            sim == fnOut.forward
        IN  /\ 0 <= sim.num /\ sim.num <= sim.den
            /\ sim.num * fnOut.backward.den = fnOut.backward.num * sim.den
            /\ IF A = {} \/ B = {} THEN sim.num = 0
               ELSE sim.num * Cardinality(A \cup B) = Cardinality(A \cap B) * sim.den

\* C31: an entry that GetSimilar cannot fetch or decode is skipped: it is
\* never the entry returned, and the scan goes on, so that a qualifying entry
\* is still returned whenever one can be fetched, also one that comes after
\* the entry that could not.
C31_UnreadableEntriesSkipped ==
    ("pending" \notin DOMAIN fnOut /\ fnArgs.unreadable # {}) =>
        /\ (fnOut.found => <<queryPrefix>> \o fnOut.CacheKey \notin fnArgs.unreadable)
        /\ (SimCandidates # {} => fnOut.found)

C31_Witness ==
    /\ "pending" \notin DOMAIN fnOut
    /\ Len(fnArgs.keys) >= 3
    /\ fnArgs.unreadable = {fnArgs.keys[2]}
    /\ SimGreater(SimOf(fnArgs.keys[2]), SimOf(fnArgs.keys[3]))
    /\ SimGreater(SimOf(fnArgs.keys[3]), SimOf(fnArgs.keys[1]))
    /\ fnOut.found
    /\ <<queryPrefix>> \o fnOut.CacheKey = fnArgs.keys[3]

\* C32: a Get that reaches Redis and finds under the key a value that cannot
\* be deserialized returns what it returns for a missing key, (nil, nil): no
\* value and no error.
C32_UndecodableIsAbsent ==
    \A i \in 1..Len(fnArgs) :
        (fnArgs[i].op = "Get" /\ fnArgs[i].undecodable) =>
            (~fnArgs[i].err /\ fnArgs[i].value = NoBody)

\* the number of places of the text where the phrase begins
Occurrences(text, phrase) ==
    Cardinality({i \in 1..Len(text) : i + Len(phrase) - 1 <= Len(text)
                                      /\ SubSeq(text, i, i + Len(phrase) - 1) = phrase})

\* C33 as stated: the keyword component is 0.15 times the number of
\* occurrences of the nine trigger phrases in the lowercased query, a phrase
\* that occurs k times contributing 0.15 * k.
C33_KeywordPerOccurrence ==
    "pending" \notin DOMAIN fnOut =>
        fnOut.keywordScore =
            15 * SeqSum([i \in 1..Len(complexityKeywords) |->
                            Occurrences(ToLower(fnArgs), complexityKeywords[i])])

\* C33, amended: the keyword component is 0.15 times the number of trigger
\* phrases that occur at least once in the lowercased query; a phrase
\* contributes 0.15 however many times it occurs.
C33_KeywordPerPhrase ==
    "pending" \notin DOMAIN fnOut =>
        fnOut.keywordScore =
            15 * Cardinality({i \in 1..Len(complexityKeywords) :
                                 Occurrences(ToLower(fnArgs), complexityKeywords[i]) >= 1})

C33_Witness ==
    /\ "pending" \notin DOMAIN fnOut
    /\ Occurrences(ToLower(fnArgs), <<"w", "h", "y">>) = 2
    /\ fnOut.keywordScore = 15

\* C34: the gate holds exactly one slot for each admitted call that has not
\* returned yet, whatever the way the calls before returned (success, model
\* error, cancellation after admission); so when no call of Infer or
\* InferStreaming is in flight the gate holds no slot and, the engine not
\* being closed, the next call is admitted at once.
C34_SlotsAreCallsInFlight ==
    /\ Len(fnOut.buf) = Cardinality({w \in Workers : fnArgs[w].pc = "running"})
    /\ (\A w \in Workers : fnArgs[w].pc \notin {"gate", "running"}) =>
           (fnOut.buf = <<>> /\ (~fnOut.closed => CanSend(fnOut)))

C34_Witness ==
    /\ fnArgs["w1"].pc = "returned" /\ fnArgs["w1"].kind = "InferStreaming"
    /\ fnArgs["w1"].cancelled /\ ~fnArgs["w1"].entryCancelled
    /\ fnArgs["w1"].err = "model" /\ fnArgs["w1"].invoked > 0
    /\ fnArgs["w2"].pc = "returned" /\ fnArgs["w2"].kind = "Infer"
    /\ fnArgs["w2"].err = "nil"
    /\ fnOut.buf = <<>>
    /\ ~fnOut.closed

\* C35: under the parallel and the hybrid strategy, for every number of
\* clients from 1 on, Infer eventually returns once every adapter call
\* returns, and when it has returned every goroutine it started has sent its
\* result and finished: none is left at its send on the results channel.
C35_ReturnsWithNoGoroutineLeft ==
    /\ <>(fnOut.pc = "returned")
    /\ [](fnOut.pc = "returned" =>
             /\ \A i \in DOMAIN fnOut.g : fnOut.g[i] = "done"
             /\ Len(fnOut.allResults) = FanCount(fnArgs, strategy)
             /\ fnOut.results = <<>>)

C35_Witness ==
    /\ strategy = "hybrid"
    /\ fnArgs = 1
    /\ fnOut.pc = "returned"
    /\ fnOut.g = <<"done">>
    /\ Len(fnOut.allResults) = 1
    /\ fnOut.closed

\* C36: when Infer returns without error the text it returns is not empty.
C36_ReturnedTextNonEmpty ==
    \A w \in Workers : st[w].ret = "ok" => st[w].response # EmptyText

\* C37: a request answered by a semantic cache hit is answered with an entry
\* that was stored for a request with the same context: the key of the
\* matched entry is the cache key of some request whose context is the
\* context of the request answered.
C37_SemanticHitSameContext ==
    \A w \in Workers :
        LET l == st[w]
        IN  (l.pc = "done" /\ l.status = 200 /\ l.trace[Len(l.trace)] = "GetSimilar") =>
                \A keys \in Perms(SemanticKeys(redis)) :
                    LET match == GetSimilar(redis, keys, {}, l.Query, similarityThreshold)
                    IN  (match.found /\ l.body = SemanticHitResponse(match)) =>
                            \E r \in Requests :
                                /\ GenerateCacheKey(r) = match.CacheKey
                                /\ r.Context = l.Context

\* the InferenceResponse held by a value of the store
StoredResponse(value) == IF "Embedding" \in DOMAIN value THEN value.Response ELSE value

\* C38: the store changes only when a key expires or when a request that got
\* its response from a model writes it back: a request answered from the
\* cache, by a semantic or by an exact hit, leaves every stored entry as it
\* was.  Every stored response carries cache_hit = false and the routing
\* reason of its own request alone, so the annotation a semantic hit adds to
\* the response it returns is never stored.
C38_HitLeavesStoreUnchanged ==
    /\ [](\A k \in DOMAIN redis :
             /\ ~StoredResponse(redis[k]).CacheHit
             /\ \E r \in Requests : StoredResponse(redis[k]).RoutingReason = <<Route(r).Reason>>)
    /\ [][redis' # redis =>
             \/ \E k \in DOMAIN redis : redis' = StoreDel(redis, k)
             \/ \E w \in Workers : /\ st[w].pc = "writeback"
                                   /\ st[w].ret = "ok"
                                   /\ st'[w].pc = "done"]_vars

C38_Witness ==
    \E w \in Workers :
        LET l == st[w]
        IN  /\ l.pc = "done" /\ l.status = 200
            /\ l.trace = <<"GetSimilar">>
            /\ l.body.CacheHit
            /\ Len(l.body.RoutingReason) = 2
            /\ nextId > 2
            /\ \E k \in DOMAIN redis :
                  /\ "Embedding" \in DOMAIN redis[k]
                  /\ ~redis[k].Response.CacheHit
                  /\ l.body.RoutingReason[1] = redis[k].Response.RoutingReason[1]
                  /\ Len(redis[k].Response.RoutingReason) = 1

\* C39: when no call of AddMessage is in progress, the stored session counts
\* every call that returned success: MessageCount has grown by their number,
\* TotalTokens by the sum of their tokens, and Messages are the most recent
\* messages, at most 20, of the session's messages followed by theirs.
C39_NoAddMessageLost ==
    (\A w \in Workers : fnArgs[w].pc = "none") =>
        /\ fnOut.session.MessageCount = fnOut.first.MessageCount + Len(fnOut.added)
        /\ fnOut.session.TotalTokens =
              fnOut.first.TotalTokens + SeqSum([i \in 1..Len(fnOut.added) |-> fnOut.added[i][2]])
        /\ fnOut.session.Messages =
              Trimmed(fnOut.first.Messages \o [i \in 1..Len(fnOut.added) |-> fnOut.added[i][1]])

\* C40: a state value saved once is accepted by at most one call of
\* ValidateState, whatever the interleaving of the callbacks, and a value that
\* was never saved or whose ExpiresAt has passed is accepted by none.
C40_StateAcceptedAtMostOnce ==
    /\ fnOut.accepted <= 1
    /\ \A w \in Workers :
          fnArgs[w].result = "true" => (fnArgs[w].state = "s" /\ ~fnArgs[w].expired)

====
